---- MODULE Spec2Model ----
(***************************************************************************)
(* Search orchestration of joeswann/mymap: the MapSearch coordinator       *)
(* (sequence ids, cancellation, result cache), the /api/search GET         *)
(* handler, and the Gemini payload normalizer.                             *)
(*                                                                         *)
(* Text is modelled as a sequence of one-character strings so that trim,   *)
(* toLowerCase and includes are computed.  JSON values are tagged records. *)
(***************************************************************************)
EXTENDS Integers, Sequences, FiniteSets, TLC

(***************************************************************************)
(* Bounds of the model.                                                    *)
(***************************************************************************)
MaxSearches == 2

(***************************************************************************)
(* Program constants.                                                      *)
(***************************************************************************)
RESULT_LIMIT == 20
SEARCH_RADIUS_KM == 20
STATION_CAP == 3
earthRadiusKm == 6371

NULL == [k |-> "null"]
Undefined == [k |-> "undef"]

(***************************************************************************)
(* String primitives (String.prototype.trim / toLowerCase / includes).     *)
(***************************************************************************)
IsSpace(c) == c = " "

LowerChar(c) ==
  CASE c = "A" -> "a"
    [] c = "B" -> "b"
    [] c = "C" -> "c"
    [] OTHER -> c

toLowerCase(s) == [i \in 1..Len(s) |-> LowerChar(s[i])]

RECURSIVE TrimStart(_)
TrimStart(s) ==
  IF s = <<>> THEN <<>>
  ELSE IF IsSpace(Head(s)) THEN TrimStart(Tail(s)) ELSE s

RECURSIVE TrimEnd(_)
TrimEnd(s) ==
  IF s = <<>> THEN <<>>
  ELSE IF IsSpace(s[Len(s)]) THEN TrimEnd(SubSeq(s, 1, Len(s) - 1)) ELSE s

trim(s) == TrimEnd(TrimStart(s))

includes(s, sub) ==
  \E i \in 0..(Len(s) - Len(sub)) : SubSeq(s, i + 1, i + Len(sub)) = sub

(***************************************************************************)
(* JSON values as the handler sees them after JSON.parse.                  *)
(***************************************************************************)
JNum(n) == [k |-> "num", n |-> n]
JStr(s) == [k |-> "str", s |-> s]
JBool(b) == [k |-> "bool", b |-> b]
JArr(a) == [k |-> "arr", a |-> a]
JObj(o) == [k |-> "obj", o |-> o]

\* JavaScript truthiness
Truthy(v) ==
  CASE v.k = "undef" -> FALSE
    [] v.k = "null" -> FALSE
    [] v.k = "num" -> v.n # 0
    [] v.k = "str" -> v.s # <<>>
    [] v.k = "bool" -> v.b
    [] OTHER -> TRUE

\* Property read v.f on a value that is neither null nor undefined
Get(v, f) == IF v.k = "obj" /\ f \in DOMAIN v.o THEN v.o[f] ELSE Undefined

\* a || b
OrElse(a, b) == IF Truthy(a) THEN a ELSE b

\* An object literal whose undefined-valued keys are left out (they vanish
\* in JSON.stringify and are treated as absent by zod's optional()).
Strip(r) == [f \in {g \in DOMAIN r : r[g] # Undefined} |-> r[f]]

\* { ...v } for a truthy v: own enumerable properties of an object; a number
\* or boolean spreads to {}.
Spread(v) == IF v.k = "obj" THEN v.o ELSE <<>>

(***************************************************************************)
(* lib/gemini.ts: normalizeGeminiPayload.  The result is either a thrown   *)
(* TypeError or the returned object.                                       *)
(***************************************************************************)
Thrown == [throws |-> TRUE]
Returned(v) == [throws |-> FALSE, value |-> v]

PlaceId(index) == <<"place-", ToString(index)>>

NearYou == <<"Near you">>

\* One element of sourcePlaces.map((place, index) => ({...})); reading
\* place.id throws when place is null.
NormalizePlace(place, index) ==
  JObj(Strip([
    id |-> OrElse(Get(place, "id"), JStr(PlaceId(index))),
    name |-> Get(place, "name"),
    description |-> Get(place, "description"),
    address |-> Get(place, "address"),
    photoUrl |-> Get(place, "photoUrl"),
    rating |-> IF Get(place, "rating").k = "num" THEN Get(place, "rating") ELSE Undefined,
    priceRange |-> Get(place, "priceRange"),
    website |-> Get(place, "website"),
    phone |-> Get(place, "phone"),
    sources |-> IF Get(place, "sources").k = "arr" THEN Get(place, "sources") ELSE Undefined,
    type |-> JStr(<<"place">>)]))

FallbackParsedQuery(query, hasLocation) ==
  JObj(Strip([
    searchTerm |-> JStr(query),
    location |-> IF hasLocation THEN JObj([area |-> JStr(NearYou)]) ELSE Undefined]))

\* The branch taken when raw.parsedQuery is truthy
NormalizeCanonical(raw, query) ==
  LET rawParsed == Get(raw, "parsedQuery")
      location == Get(rawParsed, "location")
      context0 == IF Truthy(Get(rawParsed, "context"))
                  THEN JObj(Spread(Get(rawParsed, "context")))
                  ELSE Undefined
      ctxFilters == IF context0 = Undefined THEN Undefined ELSE Get(context0, "filters")
      \* context.filters = rawParsed.filters happens only on the local copy;
      \* without a context the assignment goes to rawParsed.context and the
      \* local stays undefined.
      context == IF ~Truthy(ctxFilters) /\ Truthy(Get(rawParsed, "filters")) /\ context0 # Undefined
                 THEN JObj([f \in (DOMAIN context0.o) \cup {"filters"} |->
                             IF f = "filters" THEN Get(rawParsed, "filters") ELSE context0.o[f]])
                 ELSE context0
      area == IF location.k \in {"null", "undef"} THEN Undefined ELSE Get(location, "area")
  IN  JObj(Strip([
        parsedQuery |-> JObj(Strip([
          searchTerm |-> OrElse(Get(rawParsed, "searchTerm"), JStr(query)),
          context |-> context,
          location |-> IF Truthy(area) THEN JObj([area |-> area]) ELSE Undefined])),
        results |-> OrElse(Get(raw, "results"), JArr(<<>>))]))

normalizeGeminiPayload(raw, query, hasLocation) ==
  IF ~Truthy(raw) \/ raw.k \notin {"obj", "arr"}
  THEN Returned(JObj([parsedQuery |-> FallbackParsedQuery(query, hasLocation),
                      results |-> JArr(<<>>)]))
  ELSE IF Truthy(Get(raw, "parsedQuery"))
  THEN Returned(NormalizeCanonical(raw, query))
  ELSE LET sourcePlaces == IF Get(raw, "results").k = "arr" THEN Get(raw, "results").a ELSE <<>>
       IN  IF \E i \in 1..Len(sourcePlaces) : sourcePlaces[i].k = "null"
           THEN Thrown
           ELSE Returned(JObj([
                  parsedQuery |-> FallbackParsedQuery(query, hasLocation),
                  results |-> JArr([i \in 1..Len(sourcePlaces) |->
                                     NormalizePlace(sourcePlaces[i], i - 1)])]))

(***************************************************************************)
(* lib/gemini.ts, the earlier revision of normalizeGeminiPayload (lines    *)
(* 243-335): it reconciles the alias shape {search_intent,                 *)
(* suggested_places | places} and resolves the coordinate aliases.         *)
(***************************************************************************)
Nullish(v) == v.k \in {"null", "undef"}

\* a ?? b
Coalesce(a, b) == IF Nullish(a) THEN b ELSE a

\* lines 318-331: the coordinates of one place
AliasCoordinates(c) ==
  JObj([latitude |-> Coalesce(Get(c, "latitude"),
                       Coalesce(Get(c, "lat"), Coalesce(Get(c, "y"), JNum(0)))),
        longitude |-> Coalesce(Get(c, "longitude"),
                        Coalesce(Get(c, "lng"), Coalesce(Get(c, "x"), JNum(0))))])

\* lines 312-333: one element of sourcePlaces.map; place.id throws when
\* place is null
AliasPlace(place, index) ==
  JObj(Strip([
    id |-> OrElse(Get(place, "id"), JStr(PlaceId(index))),
    name |-> Get(place, "name"),
    description |-> Get(place, "description"),
    address |-> Get(place, "address"),
    coordinates |-> IF Truthy(Get(place, "coordinates"))
                    THEN AliasCoordinates(Get(place, "coordinates"))
                    ELSE Undefined,
    type |-> JStr(<<"place">>)]))

\* lines 267-271
AliasSearchIntent(raw) ==
  IF Truthy(Get(raw, "search_intent")) /\ Get(raw, "search_intent").k \in {"obj", "arr"}
  THEN Get(raw, "search_intent") ELSE NULL

\* lines 274-280
AliasSearchTerm(raw, query) ==
  OrElse(Get(AliasSearchIntent(raw), "query"),
    OrElse(IF Get(raw, "search_intent").k = "str" THEN Get(raw, "search_intent") ELSE JStr(<<>>),
      OrElse(Get(raw, "searchTerm"), JStr(query))))

\* lines 288-302
AliasLocation(raw) ==
  LET searchIntent == AliasSearchIntent(raw)
      from == IF Truthy(Get(searchIntent, "location")) THEN Get(searchIntent, "location")
              ELSE IF Truthy(Get(raw, "location")) THEN Get(raw, "location")
              ELSE Undefined
  IN  IF from = Undefined THEN Undefined
      ELSE JObj([coordinates |-> JObj(Strip([latitude |-> Get(from, "latitude"),
                                             longitude |-> Get(from, "longitude")]))])

\* lines 305-309
AliasSourcePlaces(raw) ==
  IF Get(raw, "suggested_places").k = "arr" THEN Get(raw, "suggested_places").a
  ELSE IF Get(raw, "places").k = "arr" THEN Get(raw, "places").a
  ELSE <<>>

normalizeGeminiPayloadAlias(raw, query, userLocation) ==
  IF ~Truthy(raw) \/ raw.k \notin {"obj", "arr"}
  THEN Returned(JObj([
         parsedQuery |-> JObj(Strip([
           searchTerm |-> JStr(query),
           location |-> IF userLocation # Undefined
                        THEN JObj([coordinates |-> userLocation]) ELSE Undefined])),
         results |-> JArr(<<>>)]))
  ELSE IF Truthy(Get(raw, "parsedQuery"))
  THEN Returned(JObj([parsedQuery |-> Get(raw, "parsedQuery"),
                      results |-> OrElse(Get(raw, "results"), JArr(<<>>))]))
  ELSE LET searchIntent == AliasSearchIntent(raw)
           sourcePlaces == AliasSourcePlaces(raw)
       IN  IF \E i \in 1..Len(sourcePlaces) : sourcePlaces[i].k = "null"
           THEN Thrown
           ELSE Returned(JObj([
                  parsedQuery |-> JObj(Strip([
                    searchTerm |-> AliasSearchTerm(raw, query),
                    context |-> IF Truthy(Get(searchIntent, "filters"))
                                THEN JObj([filters |-> Get(searchIntent, "filters")])
                                ELSE Undefined,
                    location |-> AliasLocation(raw)])),
                  results |-> JArr([i \in 1..Len(sourcePlaces) |->
                                     AliasPlace(sourcePlaces[i], i - 1)])]))

(***************************************************************************)
(* lib/schemas.ts: SearchResponseSchema.safeParse.  A website is a text of *)
(* two tokens <<scheme, host>>; a source is a name, optionally followed by *)
(* "|" and the tokens of a URL.                                            *)
(***************************************************************************)
OptString(v) == v.k \in {"undef", "str"}
PriceRanges == {<<"low">>, <<"medium">>, <<"high">>, <<"luxury">>}
ResultTypes == {<<"place">>, <<"restaurant">>, <<"hotel">>, <<"cafe">>, <<"park">>,
                <<"landmark">>, <<"store">>, <<"other">>}
ConfidenceTiers == {<<"high">>, <<"medium">>, <<"low">>}
OptEnum(v, S) == v.k = "undef" \/ (v.k = "str" /\ v.s \in S)
OptRating(v) == v.k = "undef" \/ (v.k = "num" /\ v.n >= 0 /\ v.n <= 5)

\* new URL(text) succeeds with an http(s) protocol
IsHttpUrl(t) == Len(t) = 2 /\ t[1] \in {"http://", "https://"} /\ t[2] # ""

urlSchema(v) ==
  \/ v.k = "undef"
  \/ /\ v.k = "str"
     /\ \/ v.s = <<>>
        \/ IsHttpUrl(v.s) /\ v.s[2] # "localhost"

\* source.split("|").map(trim): the tokens after the single "|"
sourceSchema(v) ==
  /\ v.k = "str"
  /\ LET bars == {i \in 1..Len(v.s) : v.s[i] = "|"}
     IN  \/ bars = {}
         \/ /\ Cardinality(bars) = 1
            /\ LET i == CHOOSE j \in bars : TRUE
               IN  IsHttpUrl(trim(SubSeq(v.s, i + 1, Len(v.s))))

FiltersSchema(v) ==
  \/ v.k = "undef"
  \/ /\ v.k = "obj"
     /\ LET c == Get(v, "cuisine") a == Get(v, "amenities") d == Get(v, "distance")
        IN  /\ c.k = "undef" \/ (c.k = "arr" /\ \A i \in 1..Len(c.a) : c.a[i].k = "str")
            /\ a.k = "undef" \/ (a.k = "arr" /\ \A i \in 1..Len(a.a) : a.a[i].k = "str")
            /\ OptEnum(Get(v, "priceRange"), PriceRanges)
            /\ Get(v, "openNow").k \in {"undef", "bool"}
            /\ OptRating(Get(v, "rating"))
            /\ \/ d.k = "undef"
               \/ /\ d.k = "obj"
                  /\ Get(d, "value").k = "num"
                  /\ Get(d, "unit").k = "str"
                  /\ Get(d, "unit").s \in {<<"miles">>, <<"kilometers">>}

ParsedQuerySchema(v) ==
  /\ v.k = "obj"
  /\ Get(v, "searchTerm").k = "str"
  /\ LET l == Get(v, "location")
     IN  l.k = "undef" \/ (l.k = "obj" /\ OptString(Get(l, "area")))
  /\ LET c == Get(v, "context")
     IN  \/ c.k = "undef"
         \/ /\ c.k = "obj"
            /\ Get(c, "type").k \in {"undef", "str"}
            /\ FiltersSchema(Get(c, "filters"))

AiResultSchema(v) ==
  /\ v.k = "obj"
  /\ OptString(Get(v, "id"))
  /\ Get(v, "name").k = "str" /\ Len(Get(v, "name").s) >= 1
  /\ OptString(Get(v, "description"))
  /\ OptString(Get(v, "address"))
  /\ OptRating(Get(v, "rating"))
  /\ OptEnum(Get(v, "priceRange"), PriceRanges)
  /\ urlSchema(Get(v, "website"))
  /\ OptString(Get(v, "phone"))
  /\ LET s == Get(v, "sources")
     IN  s.k = "undef" \/ (s.k = "arr" /\ \A i \in 1..Len(s.a) : sourceSchema(s.a[i]))
  /\ OptEnum(Get(v, "type"), ResultTypes)
  /\ OptEnum(Get(v, "confidence"), ConfidenceTiers)

\* a validation that accepts every payload
SearchResponseSchemaAcceptAll(v) == TRUE

SearchResponseSchema(v) ==
  /\ v.k = "obj"
  /\ ParsedQuerySchema(Get(v, "parsedQuery"))
  /\ LET r == Get(v, "results")
     IN  r.k = "undef" \/ (r.k = "arr" /\ \A i \in 1..Len(r.a) : AiResultSchema(r.a[i]))

(***************************************************************************)
(* lib/geocoding.ts.  Coordinates are in hundredths of a degree and every  *)
(* point of the model lies on one meridian, where the haversine distance   *)
(* is exactly R * |dLat| (in radians); pi is taken as 355/113 and the      *)
(* distance is kept as a fraction of kilometres.                           *)
(***************************************************************************)
Coord(lat, lng) == JObj([latitude |-> JNum(lat), longitude |-> JNum(lng)])

Abs(x) == IF x < 0 THEN -x ELSE x

\* a distance function for which every point is at the origin
getDistanceKmZero(a, b) == [num |-> 0, den |-> 1]

getDistanceKm(a, b) ==
  [num |-> earthRadiusKm * 355 * Abs(Get(b, "latitude").n - Get(a, "latitude").n),
   den |-> 113 * 180 * 100]

\* distance <= km
DistanceAtMost(d, km) == d.num <= km * d.den

\* What one call of geocodeAddress can do: resolve to coordinates, return
\* null (non-ok status, or an empty match list), or reject (fetch or
\* response.json() throws).
GeoOk(c) == [kind |-> "ok", coords |-> c]
GeoNoMatch == [kind |-> "nomatch"]
GeoHttpError == [kind |-> "httperr"]
GeoThrow == [kind |-> "throw"]

geocodeAddress(outcome) ==
  CASE outcome.kind = "ok" -> Returned(outcome.coords)
    [] outcome.kind = "throw" -> Thrown
    [] OTHER -> Returned(NULL)

\* lines 23-26: the search parameters of the request geocodeAddress sends;
\* userLocation is not read
GeocodeRequest(address, userLocation) ==
  [format |-> "json", limit |-> "1", q |-> address]

ViewboxKm == 10

\* lib/urlValidation.ts, getViewbox: the box of about ViewboxKm around a location
getViewbox(userLocation) == [centre |-> userLocation, km |-> ViewboxKm]

\* lib/urlValidation.ts, lines 227-239: the request of the geocodeAddress
\* defined there, which the GET handler does not import
GeocodeRequestViewbox(address, userLocation) ==
  IF Truthy(userLocation)
  THEN [format |-> "json", limit |-> "1", q |-> address,
        viewbox |-> getViewbox(userLocation), bounded |-> "1"]
  ELSE [format |-> "json", limit |-> "1", q |-> address]

\* reverseGeocodeAddress: an address, null (non-ok status or no
\* display_name), or a rejection (fetch or response.json() throws).
reverseGeocodeAddress(outcome) ==
  CASE outcome = "throw" -> Thrown
    [] outcome = "addr" -> Returned(JStr(<<"addr">>))
    [] OTHER -> Returned(NULL)

(***************************************************************************)
(* app/api/search/route.ts: the GET handler.  env holds what the outside   *)
(* world does during the request:                                          *)
(*   revgeo  outcome of the reverse geocoding call                         *)
(*   apiKey  whether NEXT_PUBLIC_GEMINI_API_KEY is set                     *)
(*   gemini  callGeminiTool: "throw", or the text part of its answer       *)
(*           ("notext", "badjson", or the JSON value the text parses to)   *)
(*   geo     outcome of the geocode lookup of the i-th result              *)
(***************************************************************************)
buildFallback(query, userLocation) ==
  JObj([parsedQuery |-> JObj(Strip([
          searchTerm |-> JStr(query),
          location |-> IF userLocation = Undefined THEN Undefined
                       ELSE JObj([coordinates |-> userLocation])])),
        results |-> JArr(<<>>)])

Json200(body) == [status |-> 200, body |-> body]
Json400 == [status |-> 400, body |-> JObj([error |-> JStr(<<"Query required">>)])]
\* an exception that leaves the handler: the framework answers 500
Escaped == [status |-> 500, body |-> Undefined]

SetField(obj, f, v) == JObj([g \in (DOMAIN obj.o) \cup {f} |-> IF g = f THEN v ELSE obj.o[g]])

Take(seq, n) == SubSeq(seq, 1, IF Len(seq) < n THEN Len(seq) ELSE n)

RECURSIVE Filter(_, _)
Filter(seq, keep) ==
  IF seq = <<>> THEN <<>>
  ELSE (IF keep[1] THEN <<Head(seq)>> ELSE <<>>) \o Filter(Tail(seq), Tail(keep))

NeedsGeocode(result) ==
  Truthy(Get(result, "address")) /\ ~Truthy(Get(result, "coordinates"))

\* normalized.results.map(async (result) => ...) for one result
GeocodeResult(result, outcome) ==
  IF ~NeedsGeocode(result) THEN result
  ELSE LET coords == geocodeAddress(outcome).value
       IN  IF ~Truthy(coords) THEN result ELSE SetField(result, "coordinates", coords)

\* the filter applied when userLocation is known
WithinRadius(userLocation, result) ==
  /\ Truthy(Get(result, "coordinates"))
  /\ Get(Get(result, "coordinates"), "latitude").k = "num"
  /\ DistanceAtMost(getDistanceKm(userLocation, Get(result, "coordinates")), SEARCH_RADIUS_KM)

\* lines 915-991: everything after a successful validation
Enrich(data, userLocation, geo) ==
  LET pq == Get(data, "parsedQuery")
      loc0 == IF Get(pq, "location").k = "obj" THEN Get(pq, "location").o ELSE <<>>
      location == IF userLocation = Undefined THEN JObj(loc0)
                  ELSE SetField(JObj(loc0), "coordinates", userLocation)
      results0 == IF Get(data, "results").k = "arr" THEN Get(data, "results").a ELSE <<>>
      sliced == Take(results0, RESULT_LIMIT)
      rejects == \E i \in 1..Len(sliced) :
                    NeedsGeocode(sliced[i]) /\ geocodeAddress(geo[i]).throws
      geocoded == [i \in 1..Len(sliced) |-> GeocodeResult(sliced[i], geo[i])]
      filtered == IF userLocation = Undefined THEN geocoded
                  ELSE Filter(geocoded, [i \in 1..Len(geocoded) |->
                                           WithinRadius(userLocation, geocoded[i])])
  IN  IF rejects THEN Thrown
      ELSE Returned(JObj([parsedQuery |-> SetField(pq, "location", location),
                          results |-> JArr(filtered)]))

\* lines 852-991: the body of the try block; Thrown is what its catch sees
TryBody(query, userLocation, env) ==
  IF env.gemini.kind \in {"throw", "badjson"} THEN Thrown
  ELSE LET parsedArgs == IF env.gemini.kind = "json" THEN env.gemini.v ELSE NULL
       IN  IF ~Truthy(parsedArgs) THEN Returned(buildFallback(query, userLocation))
           ELSE LET normalizedArgs ==
                      normalizeGeminiPayload(parsedArgs, query, userLocation # Undefined)
                IN  IF normalizedArgs.throws THEN Thrown
                    ELSE IF ~SearchResponseSchema(normalizedArgs.value)
                    THEN Returned(buildFallback(query, userLocation))
                    ELSE Enrich(normalizedArgs.value, userLocation, env.geo)

GET(q, userLocation, env) ==
  LET query == trim(q)
  IN  IF query = <<>> THEN Json400
      ELSE IF userLocation # Undefined /\ reverseGeocodeAddress(env.revgeo).throws
      THEN Escaped
      ELSE IF ~env.apiKey THEN Json200(buildFallback(query, userLocation))
      ELSE LET body == TryBody(query, userLocation, env)
           IN  IF body.throws THEN Json200(buildFallback(query, userLocation))
               ELSE Json200(body.value)

\* the results for which GET calls geocodeAddress (lines 937-953 are reached
\* only after a successful validation)
GeocodeLookups(q, userLocation, env) ==
  LET query == trim(q)
      normalizedArgs == normalizeGeminiPayload(env.gemini.v, query, userLocation # Undefined)
  IN  IF \/ query = <<>>
         \/ userLocation # Undefined /\ reverseGeocodeAddress(env.revgeo).throws
         \/ ~env.apiKey
         \/ env.gemini.kind # "json"
         \/ ~Truthy(env.gemini.v)
         \/ normalizedArgs.throws
         \/ ~SearchResponseSchema(normalizedArgs.value)
      THEN {}
      ELSE LET results0 == IF Get(normalizedArgs.value, "results").k = "arr"
                           THEN Get(normalizedArgs.value, "results").a ELSE <<>>
               sliced == Take(results0, RESULT_LIMIT)
           IN  {i \in 1..Len(sliced) : NeedsGeocode(sliced[i])}

\* the candidates GET maps over at line 938
Sliced(q, userLocation, env) ==
  LET normalizedArgs == normalizeGeminiPayload(env.gemini.v, trim(q), userLocation # Undefined)
      results0 == IF Get(normalizedArgs.value, "results").k = "arr"
                  THEN Get(normalizedArgs.value, "results").a ELSE <<>>
  IN  Take(results0, RESULT_LIMIT)

\* line 943: the request of each lookup, by the position of its candidate
GeocodeRequests(q, userLocation, env) ==
  [i \in GeocodeLookups(q, userLocation, env) |->
     GeocodeRequest(Get(Sliced(q, userLocation, env)[i], "address"), userLocation)]

\* the providers GET calls while it serves one request: none before the
\* query check (line 836), reverseGeocodeAddress when a location came with
\* the request, callGeminiTool when the API key is configured, and
\* geocodeAddress for the results that need it
ProviderCalls(q, userLocation, env) ==
  IF trim(q) = <<>> THEN {}
  ELSE (IF userLocation # Undefined THEN {"reverseGeocodeAddress"} ELSE {})
       \cup (IF /\ env.apiKey
                 /\ ~(userLocation # Undefined /\ reverseGeocodeAddress(env.revgeo).throws)
              THEN {"callGeminiTool"} ELSE {})
       \cup (IF GeocodeLookups(q, userLocation, env) # {}
              THEN {"geocodeAddress"} ELSE {})

(***************************************************************************)
(* Bounded input sets.                                                     *)
(***************************************************************************)
MaxPlaces == 2

SeqsUpTo(S, n) == UNION {[1..m -> S] : m \in 0..n}

\* Points on the meridian of the origin: the origin itself, 0.17 degrees
\* north (inside the radius), 0.18 degrees and 1 degree north (outside).
Origin == Coord(5150, -13)
PointNear == Coord(5167, -13)
PointFar == Coord(5168, -13)
PointDegree == Coord(5250, -13)

Pub == JStr(<<"P", "u", "b">>)
Addr == JStr(<<"1 High St">>)

\* Entries a provider may put in a place list
NormPlaceEntries ==
  { NULL, JNum(5), JStr(<<"x">>), JObj(<<>>),
    JObj([name |-> Pub]),
    JObj([id |-> JStr(<<"p1">>), name |-> Pub, address |-> Addr, rating |-> JNum(4)]),
    JObj([id |-> JNum(7), name |-> JNum(1), rating |-> JStr(<<"4">>), sources |-> JStr(<<"web">>)]) }

SomeFilters == JObj([openNow |-> JBool(TRUE)])
OtherFilters == JObj([priceRange |-> JStr(<<"low">>)])

NormParsedQueries ==
  { Undefined, NULL, JStr(<<"a">>), JNum(5), JBool(TRUE), JArr(<<>>), JObj(<<>>),
    JObj([searchTerm |-> JStr(<<"b">>)]),
    JObj([searchTerm |-> JStr(<<>>)]),
    JObj([searchTerm |-> JNum(5)]),
    JObj([searchTerm |-> JStr(<<"b">>), location |-> NULL]),
    JObj([searchTerm |-> JStr(<<"b">>), location |-> JObj([area |-> JStr(<<"Soho">>)])]),
    JObj([searchTerm |-> JStr(<<"b">>), filters |-> SomeFilters]),
    JObj([searchTerm |-> JStr(<<"b">>), context |-> JObj(<<>>), filters |-> SomeFilters]),
    JObj([searchTerm |-> JStr(<<"b">>), context |-> JObj([filters |-> OtherFilters]),
          filters |-> SomeFilters]),
    JObj([searchTerm |-> JStr(<<"b">>), context |-> JNum(1)]) }

NormResults ==
  {Undefined, NULL, JStr(<<"x">>), JNum(3), JObj(<<>>)}
    \cup {JArr(l) : l \in SeqsUpTo(NormPlaceEntries, MaxPlaces)}

\* Every JSON value the normalizer is tried on
NormPayloads ==
  {NULL, JNum(0), JNum(5), JStr(<<>>), JStr(<<"x">>), JBool(FALSE), JBool(TRUE),
   JArr(<<>>), JArr(<<NULL>>)}
    \cup {JObj(Strip([parsedQuery |-> pq, results |-> r])) :
            pq \in NormParsedQueries, r \in NormResults}

Queries == {<<"a">>, <<"b", "a">>}

VARIABLES normArgs, normRet

normVars == <<normArgs, normRet>>

NormInit ==
  /\ normArgs \in [raw : NormPayloads, query : Queries, hasLocation : BOOLEAN]
  /\ normRet = Undefined

\* one call of normalizeGeminiPayload
Normalize ==
  /\ normRet = Undefined
  /\ normRet' = normalizeGeminiPayload(normArgs.raw, normArgs.query, normArgs.hasLocation)
  /\ UNCHANGED normArgs

(***************************************************************************)
(* The GET handler on bounded requests.                                    *)
(***************************************************************************)
MaxGetPlaces == 2

AddressOnly == JObj([name |-> Pub, address |-> Addr])
WithCoords == JObj([name |-> Pub, address |-> Addr, coordinates |-> PointNear])
NameOnly == JObj([id |-> JStr(<<"p1">>), name |-> Pub])
EmptyName == JObj([name |-> JStr(<<>>), address |-> Addr])

GetPlaceEntries == {AddressOnly, WithCoords, NameOnly, EmptyName}

\* candidates the schema refuses: rating above 5, a website that is no
\* http(s) URL, a source whose URL part is no URL
BadRating == JObj([name |-> Pub, address |-> Addr, rating |-> JNum(7)])
BadWebsite == JObj([name |-> Pub, address |-> Addr, website |-> JStr(<<"ftp://", "x.com">>)])
BadSource == JObj([name |-> Pub, address |-> Addr,
                   sources |-> JArr(<<JStr(<<"n", " ", "|", " ", "x">>)>>)])

GetPayloads ==
  {NULL, JNum(0), JStr(<<"x">>), JObj(<<>>),
   JObj([results |-> JArr(<<NULL>>)]),
   JObj([parsedQuery |-> JObj([searchTerm |-> JNum(5)])])}
    \cup {JObj([results |-> JArr(l)]) : l \in SeqsUpTo(GetPlaceEntries, MaxGetPlaces)}
    \cup {JObj([parsedQuery |-> JObj([searchTerm |-> JStr(<<"b">>)]), results |-> JArr(l)]) :
            l \in SeqsUpTo(GetPlaceEntries, MaxGetPlaces)}
    \cup {JObj([results |-> JArr(<<AddressOnly, e>>)]) : e \in {BadRating, BadWebsite, BadSource}}

GeoOutcomes == {GeoOk(PointNear), GeoOk(PointFar), GeoNoMatch, GeoHttpError, GeoThrow}

GeminiThrow == [kind |-> "throw"]
GeminiNoText == [kind |-> "notext"]
GeminiBadJson == [kind |-> "badjson"]
GeminiJson(v) == [kind |-> "json", v |-> v]

GeminiOutcomes ==
  {GeminiThrow, GeminiNoText, GeminiBadJson} \cup {GeminiJson(p) : p \in GetPayloads}

GetEnvs ==
  [revgeo : {"addr", "null", "throw"}, apiKey : BOOLEAN,
   gemini : GeminiOutcomes, geo : [1..MaxGetPlaces -> GeoOutcomes]]

VARIABLES getArgs, getRet, getLookups, getRequests

getVars == <<getArgs, getRet, getLookups, getRequests>>

GetInit ==
  /\ getArgs \in [q : {<<>>, <<" ">>, <<" ", "a">>}, userLocation : {Undefined, Origin},
                  env : GetEnvs]
  /\ getRet = Undefined
  /\ getLookups = {}
  /\ getRequests = <<>>

\* one request served by GET; getLookups records the geocode calls it made
HandleGet ==
  /\ getRet = Undefined
  /\ getRet' = GET(getArgs.q, getArgs.userLocation, getArgs.env)
  /\ getLookups' = GeocodeLookups(getArgs.q, getArgs.userLocation, getArgs.env)
  /\ getRequests' = GeocodeRequests(getArgs.q, getArgs.userLocation, getArgs.env)
  /\ UNCHANGED getArgs

(***************************************************************************)
(* The GET handler on long candidate lists: MaxLeading candidates outside  *)
(* the radius followed by up to MaxTail candidates at chosen points.  The  *)
(* provider answers in the normalized shape, so the coordinates it names   *)
(* reach the handler and no lookup is needed.                              *)
(***************************************************************************)
MaxLeading == 21
MaxTail == 2

Placed(k, point) ==
  JObj([id |-> JStr(<<"p", ToString(k)>>), name |-> Pub, coordinates |-> point])

PlacedList(leading, tail) ==
  [i \in 1..(leading + Len(tail)) |->
     IF i <= leading THEN Placed(i, PointFar) ELSE Placed(i, tail[i - leading])]

PlacedPayloads ==
  {JObj([parsedQuery |-> JObj([searchTerm |-> JStr(<<"b">>)]),
         results |-> JArr(PlacedList(leading, tail))]) :
     leading \in 0..MaxLeading,
     tail \in SeqsUpTo({Origin, PointNear, PointFar, PointDegree}, MaxTail)}

FilterInit ==
  /\ getArgs \in [q : {<<"a">>}, userLocation : {Undefined, Origin},
                  env : {[revgeo |-> "addr", apiKey |-> TRUE, gemini |-> GeminiJson(p),
                          geo |-> [i \in 1..MaxGetPlaces |-> GeoNoMatch]] :
                           p \in PlacedPayloads}]
  /\ getRet = Undefined
  /\ getLookups = {}
  /\ getRequests = <<>>

(***************************************************************************)
(* components/map/MapSearch.tsx: the search coordinator.                   *)
(***************************************************************************)
\* The station directory returned by /api/underground/stations; geometry
\* coordinates are <<longitude, latitude>>: s2 and s4 lie at the origin of
\* the searches, the other stations one degree north of it
Station(id, name, displayName, zone) ==
  [id |-> id, name |-> name, displayName |-> displayName, zone |-> zone,
   coordinates |-> IF id \in {"s2", "s4"} THEN <<-13, 5150>> ELSE <<-13, 5250>>]

Stations ==
  << Station("s1", <<"B", "a">>, <<"B", "a">>, "1"),
     Station("s2", <<"a", "b">>, <<"A", "b">>, "2"),
     Station("s3", <<"c", "a", "b">>, <<>>, ""),
     Station("s4", <<"a">>, <<"a">>, "1"),
     Station("s5", <<"c">>, <<"c", "a">>, "3") >>

RECURSIVE SelectSeq2(_, _)
\* Array.prototype.filter with the predicate given as a set of kept values
SelectSeq2(seq, kept) ==
  IF seq = <<>> THEN <<>>
  ELSE (IF Head(seq) \in kept THEN <<Head(seq)>> ELSE <<>>) \o SelectSeq2(Tail(seq), kept)

\* formatParsedQueryDescription (lib/searchHelpers.ts): the parts pushed
formatParsedQueryDescription(parsedQuery) ==
  LET location == Get(parsedQuery, "location")
      context == Get(parsedQuery, "context")
      filters == IF context.k = "obj" THEN Get(context, "filters") ELSE Undefined
      F(f) == IF filters.k = "obj" THEN Get(filters, f) ELSE Undefined
      area == IF location.k = "obj" THEN Get(location, "area") ELSE Undefined
      type == IF context.k = "obj" THEN Get(context, "type") ELSE Undefined
      parts ==
        (IF Truthy(type) THEN <<<<"Type", type>>>> ELSE <<>>)
        \o (IF Truthy(area) THEN <<<<"Area", area>>>> ELSE <<>>)
        \o (IF Truthy(F("priceRange")) THEN <<<<"Price", F("priceRange")>>>> ELSE <<>>)
        \o (IF Truthy(F("openNow")) THEN <<<<"Open now", F("openNow")>>>> ELSE <<>>)
        \o (IF Truthy(F("rating")) THEN <<<<"Rating", F("rating")>>>> ELSE <<>>)
        \o (IF F("cuisine").k = "arr" /\ Len(F("cuisine").a) > 0
            THEN <<<<"Cuisine", F("cuisine")>>>> ELSE <<>>)
        \o (IF F("amenities").k = "arr" /\ Len(F("amenities").a) > 0
            THEN <<<<"Amenities", F("amenities")>>>> ELSE <<>>)
        \o (IF Truthy(F("distance")) THEN <<<<"Within", F("distance")>>>> ELSE <<>>)
  IN  IF Len(parts) > 0 THEN parts ELSE <<"No filters detected">>

\* the intent summary built from the response
Intent(aiData, searchQuery) ==
  LET term == OrElse(Get(Get(aiData, "parsedQuery"), "searchTerm"), JStr(searchQuery))
  IN  [id |-> <<"intent">>,
       name |-> <<"Search: ">> \o term.s,
       description |-> formatParsedQueryDescription(Get(aiData, "parsedQuery")),
       type |-> "intent"]

EffectiveQuery(aiData, searchQuery) ==
  trim(OrElse(Get(Get(aiData, "parsedQuery"), "searchTerm"), JStr(searchQuery)).s)

\* aiData.results.map((result, index) => ({...}))
AiResult(result, index) ==
  [id |-> OrElse(Get(result, "id"), JStr(PlaceId(index))).s,
   name |-> Get(result, "name"),
   description |-> OrElse(Get(result, "description"),
                          OrElse(Get(result, "address"), JStr(<<"Suggested place">>))),
   address |-> Get(result, "address"),
   rating |-> Get(result, "rating"),
   priceRange |-> Get(result, "priceRange"),
   website |-> Get(result, "website"),
   phone |-> Get(result, "phone"),
   sources |-> Get(result, "sources"),
   coordinates |-> IF Truthy(Get(result, "coordinates"))
                   THEN <<Get(Get(result, "coordinates"), "longitude").n,
                          Get(Get(result, "coordinates"), "latitude").n>>
                   ELSE <<>>,
   type |-> "place"]

AiResults(aiData) ==
  LET rs == Get(aiData, "results").a
  IN  [i \in 1..Len(rs) |-> AiResult(rs[i], i - 1)]

StationResult(feature) ==
  [id |-> <<"station-", feature.id>>,
   name |-> IF feature.displayName # <<>> THEN feature.displayName ELSE feature.name,
   description |-> <<"Underground Station - Zone ", IF feature.zone # "" THEN feature.zone ELSE "N/A">>,
   coordinates |-> feature.coordinates,
   type |-> "station"]

StationMatches(features, effectiveQuery) ==
  includes(toLowerCase(features.name), toLowerCase(effectiveQuery))

\* a station within SEARCH_RADIUS_KM of the origin of the searches
StationNear(feature) ==
  DistanceAtMost(getDistanceKm(Origin, Coord(feature.coordinates[2], feature.coordinates[1])),
                 SEARCH_RADIUS_KM)

\* a station matching that applies the radius test of the places
MatchingStationsInRadius(stationsData, effectiveQuery) ==
  LET kept == {f \in {stationsData[i] : i \in 1..Len(stationsData)} :
                 StationMatches(f, effectiveQuery) /\ StationNear(f)}
      top == Take(SelectSeq2(stationsData, kept), STATION_CAP)
  IN  [i \in 1..Len(top) |-> StationResult(top[i])]

MatchingStations(stationsData, effectiveQuery) ==
  LET kept == {f \in {stationsData[i] : i \in 1..Len(stationsData)} :
                 StationMatches(f, effectiveQuery)}
      top == Take(SelectSeq2(stationsData, kept), STATION_CAP)
  IN  [i \in 1..Len(top) |-> StationResult(top[i])]

\* a merge that puts the stations first
NextResultsStationsFirst(stationsData, aiData, searchQuery) ==
  Take(MatchingStations(stationsData, EffectiveQuery(aiData, searchQuery)) \o AiResults(aiData),
       RESULT_LIMIT)

NextResults(stationsData, aiData, searchQuery) ==
  Take(AiResults(aiData) \o MatchingStations(stationsData, EffectiveQuery(aiData, searchQuery)),
       RESULT_LIMIT)

\* What the user can type into the input
RawQueries == {<<>>, <<" ">>, <<"a">>, <<" ", "A">>, <<"z">>}

\* userLocation || map.getCenter() || undefined at the time of the call
SearchLocations == {Undefined, Origin}

\* What the outside world can do while /api/search serves one request
EnvOf(revgeo, apiKey, gemini, geo1, geo2) ==
  [revgeo |-> revgeo, apiKey |-> apiKey, gemini |-> gemini,
   geo |-> [i \in 1..MaxGetPlaces |-> IF i = 1 THEN geo1 ELSE geo2]]

ClientEnvs ==
  { \* no API key: the fallback
    EnvOf("addr", FALSE, GeminiNoText, GeoNoMatch, GeoNoMatch),
    \* reverse geocoding rejects
    EnvOf("throw", TRUE, GeminiNoText, GeoNoMatch, GeoNoMatch),
    \* one address-only candidate that geocodes inside the radius
    EnvOf("addr", TRUE, GeminiJson(JObj([results |-> JArr(<<AddressOnly>>)])),
          GeoOk(PointNear), GeoNoMatch),
    \* the provider answers with a blank search term
    EnvOf("addr", TRUE,
          GeminiJson(JObj([parsedQuery |-> JObj([searchTerm |-> JStr(<<" ">>)])])),
          GeoNoMatch, GeoNoMatch) }

VARIABLES
  query,               \* useState: text of the input
  results,             \* useState: displayed result list
  intentResult,        \* useState: intent summary, or NULL
  selectedResult,      \* useState: selected place, or NULL
  isSearching,         \* useState: spinner flag
  showResults,         \* useState: dropdown visibility
  emptyStateQueryRef,  \* useRef: JStr(cache key) of the last empty search, or NULL
  latestSearchId,      \* useRef: latest issued sequence id
  abortControllerRef,  \* useRef: id of the request owning the controller, 0 for null
  cacheRef,            \* useRef: Map from cache key to {results, intent}
  reqs,                \* the performSearch calls, indexed by searchId
  mounted,             \* FALSE once the component was unmounted
  submitted            \* TRUE iff the handler that ran last is the form's onSubmit

uiVars == <<query, results, intentResult, selectedResult, isSearching, showResults>>
refVars == <<emptyStateQueryRef, latestSearchId, abortControllerRef, cacheRef>>
clientVars == <<uiVars, refVars, reqs, mounted, submitted>>

ClientInit ==
  /\ query = <<>>
  /\ results = <<>>
  /\ intentResult = NULL
  /\ selectedResult = NULL
  /\ isSearching = FALSE
  /\ showResults = FALSE
  /\ emptyStateQueryRef = NULL
  /\ latestSearchId = 0
  /\ abortControllerRef = 0
  /\ cacheRef = <<>>
  /\ reqs = <<>>
  /\ mounted = TRUE
  /\ submitted = FALSE

CacheHas(key) == key \in DOMAIN cacheRef

\* a coordinator that forgets the cache write
CacheSetNone(key, entry) == cacheRef

\* a cache that holds the last entry only
CacheSetLastOnly(key, entry) == [k \in {key} |-> entry]

\* cacheRef.current.set(key, entry)
CacheSet(key, entry) ==
  [k \in (DOMAIN cacheRef) \cup {key} |-> IF k = key THEN entry ELSE cacheRef[k]]

\* Promise.all([...]) of request r has not settled yet
Pending(r) == r.pc = "fetching"

\* a typing lookup that forgets the trim
ChangeKeyRaw(nextQuery) == toLowerCase(nextQuery)

\* onChange: nextQuery.trim().toLowerCase()
ChangeKey(nextQuery) == toLowerCase(trim(nextQuery))

\* input onChange
OnChange(nextQuery) ==
  LET cacheKey == ChangeKey(nextQuery)
  IN  /\ mounted
      /\ query' = nextQuery
      /\ selectedResult' = NULL
      /\ IF cacheKey = <<>>
         THEN /\ showResults' = FALSE
              /\ emptyStateQueryRef' = NULL
              /\ UNCHANGED <<results, intentResult>>
         ELSE IF CacheHas(cacheKey)
         THEN /\ results' = cacheRef[cacheKey].results
              /\ intentResult' = cacheRef[cacheKey].intent
              /\ showResults' = TRUE
              /\ emptyStateQueryRef' = NULL
         ELSE /\ emptyStateQueryRef' =
                   IF emptyStateQueryRef # JStr(cacheKey) THEN NULL ELSE emptyStateQueryRef
              /\ UNCHANGED <<results, intentResult, showResults>>
      /\ submitted' = FALSE
      /\ UNCHANGED <<isSearching, latestSearchId, abortControllerRef, cacheRef, reqs, mounted>>

\* input onFocus / onClick
OnFocus ==
  /\ mounted
  /\ showResults' = IF Len(results) > 0 \/ intentResult # NULL \/ isSearching
                    THEN TRUE ELSE showResults
  /\ selectedResult' = NULL
  /\ submitted' = FALSE
  /\ UNCHANGED <<query, results, intentResult, isSearching, refVars, reqs, mounted>>

\* handleSelectResult(result) for an entry of the displayed list
HandleSelectResult(i) ==
  /\ mounted
  /\ i \in 1..Len(results)
  /\ results[i].coordinates # <<>>
  /\ selectedResult' = IF results[i].type = "place" THEN results[i] ELSE NULL
  /\ showResults' = FALSE
  /\ submitted' = FALSE
  /\ UNCHANGED <<query, results, intentResult, isSearching, refVars, reqs, mounted>>

\* A performSearch call is "fetching" until its Promise.all settles; after
\* that its record keeps the path its continuation took: "applied", "blank"
\* (empty effective query), "stale" (sequence guard), "error" (catch) or
\* "aborted" (catch of AbortError).  A call that settles after the
\* Promise.all was rejected is ignored by the program and leaves no trace.
Settled(r, path) ==
  [pc |-> path, searchId |-> r.searchId, searchQuery |-> r.searchQuery, cacheKey |-> r.cacheKey, loc |-> Undefined,
   signal |-> r.signal, stations |-> "settled", search |-> "settled", aiData |-> Undefined]

\* abortControllerRef.current.abort(): the signal of the owning request is
\* set; its station fetch, the only call that was given the signal
\* (lib/api.ts: fetchSearch takes no signal), rejects with AbortError when
\* it is still in flight, and the catch block returns.
AbortHits == abortControllerRef # 0 /\ Pending(reqs[abortControllerRef])
               /\ reqs[abortControllerRef].stations = "pending"

Aborted(rs) ==
  IF abortControllerRef = 0 THEN rs
  ELSE [rs EXCEPT ![abortControllerRef] =
          IF AbortHits THEN [Settled(@, "aborted") EXCEPT !.signal = TRUE]
          ELSE [@ EXCEPT !.signal = TRUE]]

NewRequest(searchId, searchQuery, cacheKey, loc) ==
  [pc |-> "fetching", searchId |-> searchId, searchQuery |-> searchQuery, cacheKey |-> cacheKey, loc |-> loc,
   signal |-> FALSE, stations |-> "pending", search |-> "pending", aiData |-> Undefined]

\* a coordinator that reuses the current id
NextSearchIdNoIncrement == latestSearchId

\* ++latestSearchId.current
NextSearchId == latestSearchId + 1

\* a coordinator whose cache hit does not return: it shows the cached entry
\* and goes on to issue a request
OnSubmitFallThrough(loc) ==
  LET trimmedQuery == trim(query)
      cacheKey == toLowerCase(trimmedQuery)
      searchId == NextSearchId
  IN  /\ mounted
      /\ IF trimmedQuery = <<>>
         THEN /\ showResults' = FALSE
              /\ selectedResult' = NULL
              /\ UNCHANGED <<query, results, intentResult, isSearching, refVars, reqs>>
         ELSE /\ Len(reqs) < MaxSearches
              /\ reqs' = Append(Aborted(reqs), NewRequest(searchId, trimmedQuery, cacheKey, loc))
              /\ results' = IF CacheHas(cacheKey) THEN cacheRef[cacheKey].results ELSE <<>>
              /\ intentResult' = IF CacheHas(cacheKey) THEN cacheRef[cacheKey].intent ELSE NULL
              /\ emptyStateQueryRef' = NULL
              /\ isSearching' = TRUE
              /\ showResults' = TRUE
              /\ selectedResult' = NULL
              /\ abortControllerRef' = Len(reqs) + 1
              /\ latestSearchId' = searchId
              /\ UNCHANGED <<query, cacheRef>>
      /\ submitted' = TRUE
      /\ UNCHANGED mounted

\* a submit that takes the text as typed
TrimmedQueryRaw == query

\* onSubmit: const trimmedQuery = query.trim()
TrimmedQuery == trim(query)

\* form onSubmit, with performSearch up to its await; abortControllerRef
\* holds the position in reqs of the call that owns the controller
OnSubmit(loc) ==
  LET trimmedQuery == TrimmedQuery
      cacheKey == toLowerCase(trimmedQuery)
      searchId == NextSearchId
  IN  /\ mounted
      /\ IF trimmedQuery = <<>>
         THEN /\ showResults' = FALSE
              /\ selectedResult' = NULL
              /\ UNCHANGED <<query, results, intentResult, isSearching, refVars, reqs>>
         ELSE IF CacheHas(cacheKey)
         THEN /\ reqs' = Aborted(reqs)
              /\ results' = cacheRef[cacheKey].results
              /\ intentResult' = cacheRef[cacheKey].intent
              /\ showResults' = TRUE
              /\ selectedResult' = NULL
              \* the aborted call's finally block runs after the handler
              /\ isSearching' = IF AbortHits /\ reqs[abortControllerRef].searchId = latestSearchId
                                THEN FALSE ELSE isSearching
              /\ UNCHANGED <<query, refVars>>
         ELSE /\ Len(reqs) < MaxSearches
              /\ reqs' = Append(Aborted(reqs), NewRequest(searchId, trimmedQuery, cacheKey, loc))
              /\ results' = <<>>
              /\ intentResult' = NULL
              /\ emptyStateQueryRef' = NULL
              /\ isSearching' = TRUE
              /\ showResults' = TRUE
              /\ selectedResult' = NULL
              /\ abortControllerRef' = Len(reqs) + 1
              /\ latestSearchId' = searchId
              /\ UNCHANGED <<query, cacheRef>>
      /\ submitted' = TRUE
      /\ UNCHANGED mounted

\* the unmount cleanup effect
Unmount ==
  /\ mounted
  /\ mounted' = FALSE
  /\ reqs' = Aborted(reqs)
  /\ isSearching' = IF AbortHits /\ reqs[abortControllerRef].searchId = latestSearchId
                    THEN FALSE ELSE isSearching
  /\ submitted' = FALSE
  /\ UNCHANGED <<query, results, intentResult, selectedResult, showResults, refVars>>

\* a coordinator without the sequence guard
ContinuePathNoGuard(searchId, searchQuery, aiData) ==
  IF EffectiveQuery(aiData, searchQuery) = <<>> THEN "blank" ELSE "applied"

\* the path performSearch takes after the await when both calls were fulfilled
ContinuePath(searchId, searchQuery, aiData) ==
  IF searchId # latestSearchId THEN "stale"
  ELSE IF EffectiveQuery(aiData, searchQuery) = <<>> THEN "blank"
  ELSE "applied"

\* performSearch after the await, when both calls were fulfilled
\* (fitMapToResults only moves the map)
Continue(searchId, cacheKey, searchQuery, aiData) ==
  LET intent == Intent(aiData, searchQuery)
      nextResults == NextResults(Stations, aiData, searchQuery)
      path == ContinuePath(searchId, searchQuery, aiData)
  IN  /\ IF path = "stale"
         THEN UNCHANGED <<results, intentResult, selectedResult, showResults,
                          emptyStateQueryRef, cacheRef>>
         ELSE IF path = "blank"
         THEN /\ intentResult' = intent
              /\ results' = <<>>
              /\ emptyStateQueryRef' = JStr(cacheKey)
              /\ showResults' = TRUE
              /\ UNCHANGED <<selectedResult, cacheRef>>
         ELSE /\ intentResult' = intent
              /\ results' = nextResults
              /\ selectedResult' = NULL
              /\ showResults' = TRUE
              /\ IF Len(nextResults) > 0
                 THEN /\ cacheRef' = CacheSet(cacheKey, [results |-> nextResults, intent |-> intent])
                      /\ emptyStateQueryRef' = NULL
                 ELSE /\ emptyStateQueryRef' = JStr(cacheKey)
                      /\ UNCHANGED cacheRef
      \* finally
      /\ isSearching' = IF searchId = latestSearchId THEN FALSE ELSE isSearching

\* a catch path that empties the display
CatchClearsDisplay(searchId) ==
  /\ results' = <<>>
  /\ intentResult' = NULL
  /\ isSearching' = IF searchId = latestSearchId THEN FALSE ELSE isSearching
  /\ UNCHANGED <<selectedResult, showResults, emptyStateQueryRef, cacheRef>>

\* a catch path without the finally block
CatchKeepsFlag(searchId) ==
  UNCHANGED <<results, intentResult, selectedResult, showResults,
              emptyStateQueryRef, cacheRef, isSearching>>

\* performSearch after the await, when Promise.all rejected with an error
\* other than AbortError: console.error, then finally
Catch(searchId) ==
  /\ isSearching' = IF searchId = latestSearchId THEN FALSE ELSE isSearching
  /\ UNCHANGED <<results, intentResult, selectedResult, showResults,
                 emptyStateQueryRef, cacheRef>>

\* a fulfilled call of a request whose Promise.all still waits for the other
Waiting ==
  UNCHANGED <<results, intentResult, selectedResult, showResults,
              emptyStateQueryRef, cacheRef, isSearching>>

\* fetchUndergroundStations of the i-th call settles: fulfilled with the
\* directory, or rejected (non-ok status or network error)
SettleStations(i, ok) ==
  /\ i \in 1..Len(reqs)
  /\ Pending(reqs[i])
  /\ reqs[i].stations = "pending"
  /\ LET r == reqs[i]
     IN  IF ~ok
         THEN /\ reqs' = [reqs EXCEPT ![i] = Settled(r, "error")]
              /\ Catch(r.searchId)
         ELSE IF r.search = "ok"
         THEN /\ reqs' = [reqs EXCEPT ![i] =
                            Settled(r, ContinuePath(r.searchId, r.searchQuery, r.aiData))]
              /\ Continue(r.searchId, r.cacheKey, r.searchQuery, r.aiData)
         ELSE /\ reqs' = [reqs EXCEPT ![i].stations = "ok"]
              /\ Waiting
  /\ submitted' = FALSE
  /\ UNCHANGED <<query, latestSearchId, abortControllerRef, mounted>>

\* fetchSearch of the i-th call settles: the endpoint answered (GET under
\* env), or the network failed; a status other than 2xx makes fetchSearch
\* throw.  The coordinates travel as String(number) and come back through
\* Number(text), which returns the same number.
SettleSearch(i, network, env) ==
  /\ i \in 1..Len(reqs)
  /\ Pending(reqs[i])
  /\ reqs[i].search = "pending"
  /\ LET r == reqs[i]
         response == GET(r.searchQuery, r.loc, env)
         ok == network /\ response.status = 200
     IN  IF ~ok
         THEN /\ reqs' = [reqs EXCEPT ![i] = Settled(r, "error")]
              /\ Catch(r.searchId)
         ELSE IF r.stations = "ok"
         THEN /\ reqs' = [reqs EXCEPT ![i] =
                            Settled(r, ContinuePath(r.searchId, r.searchQuery, response.body))]
              /\ Continue(r.searchId, r.cacheKey, r.searchQuery, response.body)
         ELSE /\ reqs' = [reqs EXCEPT ![i] =
                            [@ EXCEPT !.search = "ok", !.aiData = response.body]]
              /\ Waiting
  /\ submitted' = FALSE
  /\ UNCHANGED <<query, latestSearchId, abortControllerRef, mounted>>

(***************************************************************************)
(* The merge of performSearch on bounded responses: up to                  *)
(* MaxMergeCandidates candidates, told apart by their ids, in two provider *)
(* orders, against three station directories.                              *)
(***************************************************************************)
MaxMergeCandidates == 21

Candidate(k) == JObj([id |-> JStr(<<"p", ToString(k)>>), name |-> Pub])

\* n candidates in the provider's order, which starts after candidate shift
CandidateList(n, shift) ==
  [i \in 1..n |-> Candidate(((i + shift - 1) % MaxMergeCandidates) + 1)]

MergeResponses ==
  {JObj([parsedQuery |-> JObj([searchTerm |-> JStr(term)]),
         results |-> JArr(CandidateList(n, shift))]) :
     term \in {<<>>, <<"a">>, <<"C">>}, n \in 0..MaxMergeCandidates, shift \in {0, 5}}

MaxIdPlaces == 2

\* candidates as the endpoint may answer them: without an id, with an empty
\* id, with an id of the provider's, with an id of the synthetic form, or
\* with the id of a station entry
IdPlaces ==
  { JObj([name |-> Pub]),
    JObj([id |-> JStr(<<>>), name |-> Pub]),
    JObj([id |-> JStr(<<"p1">>), name |-> Pub]),
    JObj([id |-> JStr(PlaceId(1)), name |-> Pub]),
    JObj([id |-> JStr(<<"station-", "s1">>), name |-> Pub]) }

IdResponses ==
  {JObj([parsedQuery |-> JObj([searchTerm |-> JStr(<<"a">>)]), results |-> JArr(l)]) :
     l \in SeqsUpTo(IdPlaces, MaxIdPlaces)}

VARIABLES mergeArgs, mergeRet

mergeVars == <<mergeArgs, mergeRet>>

MergeInit ==
  /\ mergeArgs \in [stationsData : {Stations, SubSeq(Stations, 2, 5), SubSeq(Stations, 3, 5)},
                    aiData : MergeResponses \cup IdResponses,
                    searchQuery : {<<"a">>, <<"z">>}]
  /\ mergeRet = Undefined

\* the list performSearch builds from the two fulfilled calls
Merge ==
  /\ mergeRet = Undefined
  /\ mergeRet' = Returned(NextResults(mergeArgs.stationsData, mergeArgs.aiData,
                                      mergeArgs.searchQuery))
  /\ UNCHANGED mergeArgs

MergeIdle == mergeArgs = Undefined /\ mergeRet = Undefined

(***************************************************************************)
(* lib/urlValidation.ts: validateAndCleanResult and calculateConfidence.   *)
(* A URL is a text of two tokens <<scheme, host>>; urlValidation is the    *)
(* Map that verifyUrls returned, a function from URLs to BOOLEAN.          *)
(***************************************************************************)
MaxSources == 2

\* source.includes("|")
HasBar(source) == \E i \in 1..Len(source.s) : source.s[i] = "|"

\* source.split("|").map((s) => s.trim()): the number of parts and parts[1]
SplitParts(source) == Cardinality({i \in 1..Len(source.s) : source.s[i] = "|"}) + 1

SecondPart(source) ==
  LET b == CHOOSE i \in 1..Len(source.s) : source.s[i] = "|"
  IN  trim(SubSeq(source.s, b + 1, Len(source.s)))

\* urlValidation.get(url): undefined for a missing key
MapGet(urlValidation, url) ==
  IF url \in DOMAIN urlValidation THEN JBool(urlValidation[url]) ELSE Undefined

\* a scoring that forgets the sources with URLs
calculateConfidenceNoUrls(result) ==
  LET sources == Get(result, "sources")
      score ==
        (IF Truthy(Get(result, "website")) THEN 2 ELSE 0)
        + (IF sources.k = "arr" /\ Len(sources.a) > 1 THEN 1 ELSE 0)
        + (IF Get(result, "rating") # Undefined THEN 1 ELSE 0)
        + (IF Truthy(Get(result, "address")) THEN 1 ELSE 0)
        + (IF Truthy(Get(result, "description")) THEN 1 ELSE 0)
  IN  IF score >= 7 THEN JStr(<<"high">>)
      ELSE IF score >= 4 THEN JStr(<<"medium">>)
      ELSE JStr(<<"low">>)

calculateConfidence(result) ==
  LET sources == Get(result, "sources")
      sourcesWithUrls ==
        IF sources.k = "arr"
        THEN Cardinality({i \in 1..Len(sources.a) : HasBar(sources.a[i])}) ELSE 0
      score ==
        (IF Truthy(Get(result, "website")) THEN 2 ELSE 0)
        + (IF sourcesWithUrls > 0 THEN 3 ELSE 0)
        + (IF sources.k = "arr" /\ Len(sources.a) > 1 THEN 1 ELSE 0)
        + (IF Get(result, "rating") # Undefined THEN 1 ELSE 0)
        + (IF Truthy(Get(result, "address")) THEN 1 ELSE 0)
        + (IF Truthy(Get(result, "description")) THEN 1 ELSE 0)
  IN  IF score >= 7 THEN JStr(<<"high">>)
      ELSE IF score >= 4 THEN JStr(<<"medium">>)
      ELSE JStr(<<"low">>)

\* a cleaning that keeps everything and only scores
validateAndCleanResultKeepAll(result, urlValidation) ==
  SetField(result, "confidence", calculateConfidence(result))

validateAndCleanResult(result, urlValidation) ==
  LET website == Get(result, "website")
      sources == Get(result, "sources")
      keep == [i \in 1..Len(sources.a) |->
                 IF ~HasBar(sources.a[i]) THEN TRUE
                 ELSE IF SplitParts(sources.a[i]) # 2 THEN FALSE
                 ELSE Truthy(MapGet(urlValidation, SecondPart(sources.a[i])))]
      cleaned1 ==
        IF Truthy(website) /\ ~Truthy(MapGet(urlValidation, website.s))
        THEN SetField(result, "website", Undefined) ELSE result
      cleaned2 ==
        IF Truthy(sources)
        THEN SetField(cleaned1, "sources",
                      IF Filter(sources.a, keep) = <<>> THEN Undefined
                      ELSE JArr(Filter(sources.a, keep)))
        ELSE cleaned1
  IN  SetField(cleaned2, "confidence", calculateConfidence(cleaned2))

Url1 == <<"https://", "a.com">>
Url2 == <<"https://", "b.org">>

\* sources: a plain name, 'Name | URL' for either URL, and one with two bars
ConfSources ==
  { JStr(<<"w", "e", "b">>),
    JStr(<<"n", " ", "|", " ">> \o Url1),
    JStr(<<"m", "|">> \o Url2),
    JStr(<<"n", "|", "x", "|">> \o Url1) }

ConfResults ==
  { JObj(Strip([name |-> Pub, website |-> w, sources |-> src, rating |-> r,
                address |-> a, description |-> d])) :
      w \in {Undefined, JStr(<<>>), JStr(Url1)},
      src \in {Undefined} \cup {JArr(l) : l \in SeqsUpTo(ConfSources, MaxSources)},
      r \in {Undefined, JNum(0), JNum(4)},
      a \in {Undefined, Addr},
      d \in {Undefined, JStr(<<>>), JStr(<<"d">>)} }

VARIABLES confArgs, confRet

confVars == <<confArgs, confRet>>

ConfInit ==
  /\ confArgs \in [result : ConfResults,
                   urlValidation : [{Url1, Url2} -> BOOLEAN] \cup [{Url1} -> BOOLEAN]]
  /\ confRet = Undefined

\* one call of validateAndCleanResult
Clean ==
  /\ confRet = Undefined
  /\ confRet' = validateAndCleanResult(confArgs.result, confArgs.urlValidation)
  /\ UNCHANGED confArgs

ConfIdle == confArgs = Undefined /\ confRet = Undefined

(***************************************************************************)
(* lib/urlValidation.ts: verifyUrls.  A probe is one call of verifyUrl; it *)
(* always resolves (its catch turns a rejection or a timeout into valid:   *)
(* false).  The code from the resolution of a batch's Promise.all to the   *)
(* next await runs in one step: results.set for the batch, i +=            *)
(* concurrency, and the start of every probe of the next batch.            *)
(***************************************************************************)
MaxUrls == 7
DefaultConcurrency == 5

\* Array.from(new Set(urls)): first occurrences, in order
Unique(urls) ==
  LET first == {i \in 1..Len(urls) : \A j \in 1..(i - 1) : urls[j] # urls[i]}
      nth(k) == CHOOSE i \in first : Cardinality({j \in first : j < i}) = k - 1
  IN  [k \in 1..Cardinality(first) |-> urls[nth(k)]]

\* a loop that puts all remaining URLs into one batch
BatchAll(uniqueUrls, i, concurrency) == SubSeq(uniqueUrls, i + 1, Len(uniqueUrls))

\* uniqueUrls.slice(i, i + concurrency)
Batch(uniqueUrls, i, concurrency) ==
  SubSeq(uniqueUrls, i + 1,
         IF i + concurrency < Len(uniqueUrls) THEN i + concurrency ELSE Len(uniqueUrls))

UrlList(n) == [i \in 1..n |-> <<"https://", ToString(i)>>]

\* lists without repetition, and lists in which every URL comes twice
VerifyInputs == UNION {{UrlList(n), UrlList(n) \o UrlList(n)} : n \in 0..MaxUrls}

VARIABLES
  verifyArgs,     \* urls and the concurrency option (Undefined: the default)
  verifyI,        \* the loop variable i
  inFlight,       \* URLs whose probe has not resolved
  batchResults,   \* valid flag of the resolved probes of the running batch
  verifyResults,  \* the Map results
  probes,         \* how many probes were started for each URL
  verifyBatches,  \* how many times the loop body was entered
  verifyRet       \* the returned Map, Undefined before the return

verifyVars ==
  <<verifyArgs, verifyI, inFlight, batchResults, verifyResults, probes, verifyBatches, verifyRet>>

Concurrency ==
  IF verifyArgs.concurrency = Undefined THEN DefaultConcurrency ELSE verifyArgs.concurrency.n

VerifyInit ==
  /\ verifyArgs \in [urls : VerifyInputs, concurrency : {Undefined, JNum(1), JNum(2)}]
  /\ verifyI = -1
  /\ inFlight = {}
  /\ batchResults = <<>>
  /\ verifyResults = <<>>
  /\ probes = <<>>
  /\ verifyBatches = 0
  /\ verifyRet = Undefined

\* calls with every concurrency of VerifyInit, and with concurrency 0
VerifyInitAny ==
  /\ verifyArgs \in [urls : VerifyInputs, concurrency : {Undefined, JNum(0), JNum(1), JNum(2)}]
  /\ verifyI = -1
  /\ inFlight = {}
  /\ batchResults = <<>>
  /\ verifyResults = <<>>
  /\ probes = <<>>
  /\ verifyBatches = 0
  /\ verifyRet = Undefined

\* the loop from its test at position i up to its next await or the return
RunLoop(i, map) ==
  LET uniqueUrls == Unique(verifyArgs.urls)
      batch == Batch(uniqueUrls, i, Concurrency)
      started == {batch[j] : j \in 1..Len(batch)}
  IN  /\ verifyI' = i
      /\ verifyResults' = map
      /\ batchResults' = <<>>
      /\ IF i < Len(uniqueUrls)
         THEN /\ inFlight' = started
              /\ probes' = [u \in (DOMAIN probes) \cup started |->
                              (IF u \in DOMAIN probes THEN probes[u] ELSE 0)
                              + (IF u \in started THEN 1 ELSE 0)]
              /\ verifyBatches' = verifyBatches + 1
              /\ verifyRet' = Undefined
         ELSE /\ inFlight' = {}
              /\ probes' = probes
              /\ verifyBatches' = verifyBatches
              /\ verifyRet' = Returned(map)

\* verifyUrls(urls, options) is called
CallVerifyUrls ==
  /\ verifyI = -1
  /\ RunLoop(0, <<>>)
  /\ UNCHANGED verifyArgs

\* the probe of url resolves; the last one of a batch resumes the loop
ProbeResolves(url, valid) ==
  /\ url \in inFlight
  /\ LET settled == [u \in (DOMAIN batchResults) \cup {url} |->
                       IF u = url THEN valid ELSE batchResults[u]]
     IN  IF inFlight = {url}
         THEN RunLoop(verifyI + Concurrency,
                      [u \in (DOMAIN verifyResults) \cup (DOMAIN settled) |->
                         IF u \in DOMAIN settled THEN settled[u] ELSE verifyResults[u]])
         ELSE /\ inFlight' = inFlight \ {url}
              /\ batchResults' = settled
              /\ UNCHANGED <<verifyI, verifyResults, probes, verifyBatches, verifyRet>>
  /\ UNCHANGED verifyArgs

MaxBatches == 9

\* the Promise.all of a batch without probes resolves and the loop resumes;
\* the model follows the loop for MaxBatches rounds
EmptyBatchResolves ==
  /\ verifyI >= 0
  /\ inFlight = {}
  /\ verifyRet = Undefined
  /\ verifyBatches < MaxBatches
  /\ RunLoop(verifyI + Concurrency, verifyResults)
  /\ UNCHANGED verifyArgs

VerifyIdle ==
  /\ verifyArgs = Undefined /\ verifyI = -1 /\ inFlight = {} /\ batchResults = <<>>
  /\ verifyResults = <<>> /\ probes = <<>> /\ verifyBatches = 0 /\ verifyRet = Undefined

(***************************************************************************)
(* The two revisions of normalizeGeminiPayload on alias-shaped payloads:   *)
(* one place whose coordinates carry any mix of the alias fields, and the  *)
(* combinations of search_intent, searchTerm, suggested_places, places and *)
(* results.                                                                *)
(***************************************************************************)
MaxAliasPlaces == 2

AliasCoords ==
  {JObj(Strip([latitude |-> a, lat |-> b, y |-> c, longitude |-> d, lng |-> e, x |-> f])) :
     a \in {Undefined, NULL, JNum(3), JNum(0)}, b \in {Undefined, JNum(1)},
     c \in {Undefined, JNum(5)}, d \in {Undefined, JNum(4)},
     e \in {Undefined, NULL, JNum(2)}, f \in {Undefined, JNum(6)}}

\* n places told apart by their names
AliasList(tag, n) == [i \in 1..n |-> JObj([name |-> JStr(<<tag, ToString(i)>>)])]

AliasPayloads ==
  {JObj([suggested_places |-> JArr(<<JObj(Strip([name |-> Pub, coordinates |-> c]))>>)]) :
     c \in {Undefined, NULL} \cup AliasCoords}
  \cup
  {JObj(Strip([search_intent |-> si, searchTerm |-> st, suggested_places |-> sp,
               places |-> pl, results |-> rs])) :
     si \in {Undefined, NULL, JStr(<<"s">>), JStr(<<>>), JNum(5), JObj(<<>>),
             JObj([query |-> JStr(<<"q">>)]), JObj([query |-> JStr(<<>>)])},
     st \in {Undefined, JStr(<<"t">>), JStr(<<>>)},
     sp \in {Undefined, JStr(<<"x">>)} \cup {JArr(AliasList("s", n)) : n \in 0..MaxAliasPlaces},
     pl \in {Undefined, JObj(<<>>)} \cup {JArr(AliasList("p", n)) : n \in 1..MaxAliasPlaces},
     rs \in {Undefined, JArr(AliasList("r", 1))}}

VARIABLES aliasArgs, aliasRet

aliasVars == <<aliasArgs, aliasRet>>

AliasInit ==
  /\ aliasArgs \in [raw : AliasPayloads, query : Queries, userLocation : {Undefined, Origin}]
  /\ aliasRet = Undefined

\* one call of each revision on the same payload
NormalizeAlias ==
  /\ aliasRet = Undefined
  /\ aliasRet' =
       [current |-> normalizeGeminiPayload(aliasArgs.raw, aliasArgs.query,
                                           aliasArgs.userLocation # Undefined),
        earlier |-> normalizeGeminiPayloadAlias(aliasArgs.raw, aliasArgs.query,
                                                aliasArgs.userLocation)]
  /\ UNCHANGED aliasArgs

AliasIdle == aliasArgs = Undefined /\ aliasRet = Undefined

(***************************************************************************)
(* lib/urlValidation.ts: verifyUrl, one probe.  Time is counted in         *)
(* milliseconds and advances in steps of one second; the target answers    *)
(* with a status or fails at the network level after its delay, or never   *)
(* answers.  A timer that is due fires before time advances further.       *)
(***************************************************************************)
MaxDelay == 4
DefaultTimeoutMs == 3000

ProbeStatuses == {100, 199, 200, 204, 301, 399, 400, 404, 500, 599}

ProbeTargets ==
  {[kind |-> "status", status |-> st] : st \in ProbeStatuses}
    \cup {[kind |-> "neterr", status |-> 0], [kind |-> "hang", status |-> 0]}

VARIABLES
  probeArgs,   \* the target's behaviour and the timeoutMs argument
  probePc,     \* "idle", "fetching" (awaiting fetch) or "done"
  probeNow,    \* milliseconds since the call
  probeTimer,  \* the setTimeout of line 13: "none", "armed", "cleared" or "fired"
  probeRet     \* what the call returned or threw, Undefined before

probeVars == <<probeArgs, probePc, probeNow, probeTimer, probeRet>>

\* timeoutMs = 3000 by default
TimeoutMs ==
  IF probeArgs.timeoutMs = Undefined THEN DefaultTimeoutMs ELSE probeArgs.timeoutMs.n

ProbeInit ==
  /\ probeArgs \in [target : ProbeTargets, delay : {d * 1000 : d \in 0..MaxDelay},
                    timeoutMs : {Undefined, JNum(1000), JNum(2000)}]
  /\ probePc = "idle"
  /\ probeNow = 0
  /\ probeTimer = "none"
  /\ probeRet = Undefined

\* a classification that takes 2xx only
ClassifyOkOnly(status) == status >= 200 /\ status < 300

\* response.status >= 200 && response.status < 400
Classify(status) == status >= 200 /\ status < 400

\* lines 26-31: the value returned for a response
ProbeValue(status) == Returned([valid |-> Classify(status), status |-> status])

\* lines 32-37: the catch block turns whatever the try block threw into a value
ProbeCaught(error) == Returned([valid |-> FALSE, error |-> error])

\* verifyUrl(url, timeoutMs) up to its await: the controller, the timer, the fetch
CallVerifyUrl ==
  /\ probePc = "idle"
  /\ probePc' = "fetching"
  /\ probeTimer' = "armed"
  /\ UNCHANGED <<probeArgs, probeNow, probeRet>>

TimerDue == probeTimer = "armed" /\ probeNow >= TimeoutMs

AnswerDue ==
  probePc = "fetching" /\ probeArgs.target.kind # "hang" /\ probeNow >= probeArgs.delay

\* one second passes while the fetch or the timer is pending
Tick ==
  /\ probePc = "fetching" \/ probeTimer = "armed"
  /\ ~TimerDue
  /\ ~AnswerDue
  /\ probeNow' = probeNow + 1000
  /\ UNCHANGED <<probeArgs, probePc, probeTimer, probeRet>>

\* fetch is fulfilled: clearTimeout, then the classification
Responds ==
  /\ AnswerDue
  /\ probeArgs.target.kind = "status"
  /\ probeTimer' = "cleared"
  /\ probeRet' = ProbeValue(probeArgs.target.status)
  /\ probePc' = "done"
  /\ UNCHANGED <<probeArgs, probeNow>>

\* fetch rejects with a network error: the catch block; the timer stays armed
Rejects ==
  /\ AnswerDue
  /\ probeArgs.target.kind = "neterr"
  /\ probeRet' = ProbeCaught("network")
  /\ probePc' = "done"
  /\ UNCHANGED <<probeArgs, probeNow, probeTimer>>

\* the timer fires: controller.abort() rejects a fetch that is still pending
TimeoutFires ==
  /\ TimerDue
  /\ probeTimer' = "fired"
  /\ IF probePc = "fetching"
     THEN probeRet' = ProbeCaught("aborted") /\ probePc' = "done"
     ELSE UNCHANGED <<probeRet, probePc>>
  /\ UNCHANGED <<probeArgs, probeNow>>

ProbeIdle ==
  /\ probeArgs = Undefined /\ probePc = "idle" /\ probeNow = 0
  /\ probeTimer = "none" /\ probeRet = Undefined

(***************************************************************************)
(* Specifications.                                                         *)
(***************************************************************************)
pureVars == <<mergeVars, confVars, verifyVars, aliasVars, probeVars>>

vars == <<clientVars, getVars, normVars, pureVars>>

PureIdle == MergeIdle /\ ConfIdle /\ VerifyIdle /\ AliasIdle /\ ProbeIdle

NormIdle == normArgs = Undefined /\ normRet = Undefined
GetIdle ==
  getArgs = Undefined /\ getRet = Undefined /\ getLookups = {} /\ getRequests = <<>>

\* The coordinator in its session
Init == ClientInit /\ GetIdle /\ NormIdle /\ PureIdle

Next ==
  \/ \E nextQuery \in RawQueries : OnChange(nextQuery) /\ UNCHANGED <<getVars, normVars, pureVars>>
  \/ OnFocus /\ UNCHANGED <<getVars, normVars, pureVars>>
  \/ \E i \in 1..RESULT_LIMIT : HandleSelectResult(i) /\ UNCHANGED <<getVars, normVars, pureVars>>
  \/ \E loc \in SearchLocations : OnSubmit(loc) /\ UNCHANGED <<getVars, normVars, pureVars>>
  \/ \E i \in 1..MaxSearches, ok \in BOOLEAN :
       SettleStations(i, ok) /\ UNCHANGED <<getVars, normVars, pureVars>>
  \/ \E i \in 1..MaxSearches, network \in BOOLEAN, env \in ClientEnvs :
       SettleSearch(i, network, env) /\ UNCHANGED <<getVars, normVars, pureVars>>
  \/ Unmount /\ UNCHANGED <<getVars, normVars, pureVars>>

Spec == Init /\ [][Next]_vars

\* The coordinator when every network call eventually settles: each fetch
\* of each performSearch call is fulfilled or rejected at some time
SettlesStations(i) ==
  \E ok \in BOOLEAN : SettleStations(i, ok) /\ UNCHANGED <<getVars, normVars, pureVars>>

SettlesSearch(i) ==
  \E network \in BOOLEAN, env \in ClientEnvs :
    SettleSearch(i, network, env) /\ UNCHANGED <<getVars, normVars, pureVars>>

Fairness ==
  \A i \in 1..MaxSearches : WF_vars(SettlesStations(i)) /\ WF_vars(SettlesSearch(i))

LiveSpec == Init /\ [][Next]_vars /\ Fairness

\* The coordinator in a session where the map centre changes between
\* submissions: the provider names one address-only candidate, which
\* geocodes either near the origin or a degree north of it
OriginEnvs ==
  {EnvOf("addr", TRUE, GeminiJson(JObj([results |-> JArr(<<AddressOnly>>)])), geo1, GeoNoMatch) :
     geo1 \in {GeoOk(PointNear), GeoOk(PointDegree)}}

OriginNext ==
  \/ \E nextQuery \in RawQueries : OnChange(nextQuery) /\ UNCHANGED <<getVars, normVars, pureVars>>
  \/ OnFocus /\ UNCHANGED <<getVars, normVars, pureVars>>
  \/ \E i \in 1..RESULT_LIMIT : HandleSelectResult(i) /\ UNCHANGED <<getVars, normVars, pureVars>>
  \/ \E loc \in SearchLocations : OnSubmit(loc) /\ UNCHANGED <<getVars, normVars, pureVars>>
  \/ \E i \in 1..MaxSearches, ok \in BOOLEAN :
       SettleStations(i, ok) /\ UNCHANGED <<getVars, normVars, pureVars>>
  \/ \E i \in 1..MaxSearches, network \in BOOLEAN, env \in OriginEnvs :
       SettleSearch(i, network, env) /\ UNCHANGED <<getVars, normVars, pureVars>>
  \/ Unmount /\ UNCHANGED <<getVars, normVars, pureVars>>

OriginSpec == Init /\ [][OriginNext]_vars

\* The search endpoint serving one request
GetSpecInit == GetInit /\ ClientInit /\ NormIdle /\ PureIdle

GetNext == HandleGet /\ UNCHANGED <<clientVars, normVars, pureVars>>

GetSpec == GetSpecInit /\ [][GetNext]_vars

\* The normalizer applied to one payload
NormSpecInit == NormInit /\ ClientInit /\ GetIdle /\ PureIdle

NormNext == Normalize /\ UNCHANGED <<clientVars, getVars, pureVars>>

NormSpec == NormSpecInit /\ [][NormNext]_vars

\* The search endpoint serving one request with a long candidate list
FilterSpecInit == FilterInit /\ ClientInit /\ NormIdle /\ PureIdle

FilterSpec == FilterSpecInit /\ [][GetNext]_vars

\* The merge applied to one pair of responses
MergeSpecInit == MergeInit /\ ConfIdle /\ VerifyIdle /\ AliasIdle /\ ProbeIdle /\ ClientInit /\ GetIdle /\ NormIdle

MergeNext == Merge /\ UNCHANGED <<clientVars, getVars, normVars, confVars, verifyVars, aliasVars, probeVars>>

MergeSpec == MergeSpecInit /\ [][MergeNext]_vars

\* The cleaning and scoring of one candidate
ConfSpecInit == ConfInit /\ MergeIdle /\ VerifyIdle /\ AliasIdle /\ ProbeIdle /\ ClientInit /\ GetIdle /\ NormIdle

ConfNext == Clean /\ UNCHANGED <<clientVars, getVars, normVars, mergeVars, verifyVars, aliasVars, probeVars>>

ConfSpec == ConfSpecInit /\ [][ConfNext]_vars

\* One call of verifyUrls and its probes
VerifySpecInit == VerifyInit /\ MergeIdle /\ ConfIdle /\ AliasIdle /\ ProbeIdle /\ ClientInit /\ GetIdle /\ NormIdle

VerifyNext ==
  \/ CallVerifyUrls /\ UNCHANGED <<clientVars, getVars, normVars, mergeVars, confVars, aliasVars, probeVars>>
  \/ \E url \in inFlight, valid \in BOOLEAN :
       ProbeResolves(url, valid) /\ UNCHANGED <<clientVars, getVars, normVars, mergeVars, confVars, aliasVars, probeVars>>

VerifySpec == VerifySpecInit /\ [][VerifyNext]_vars

\* verifyUrls with any concurrency; every probe settles and every resolved
\* Promise.all resumes the loop
VerifyAnySpecInit ==
  VerifyInitAny /\ MergeIdle /\ ConfIdle /\ AliasIdle /\ ProbeIdle /\ ClientInit /\ GetIdle /\ NormIdle

VerifyFrame == UNCHANGED <<clientVars, getVars, normVars, mergeVars, confVars, aliasVars, probeVars>>

VerifyAnyNext ==
  \/ CallVerifyUrls /\ VerifyFrame
  \/ \E url \in inFlight, valid \in BOOLEAN : ProbeResolves(url, valid) /\ VerifyFrame
  \/ EmptyBatchResolves /\ VerifyFrame

VerifyAnySpec == VerifyAnySpecInit /\ [][VerifyAnyNext]_vars /\ WF_vars(VerifyAnyNext)

\* Both revisions of the normalizer on one alias-shaped payload
AliasSpecInit ==
  AliasInit /\ MergeIdle /\ ConfIdle /\ VerifyIdle /\ ProbeIdle /\ ClientInit /\ GetIdle /\ NormIdle

AliasNext ==
  NormalizeAlias /\ UNCHANGED <<clientVars, getVars, normVars, mergeVars, confVars, verifyVars, probeVars>>

AliasSpec == AliasSpecInit /\ [][AliasNext]_vars

\* One probe; timers fire and answers arrive when they are due
ProbeSpecInit ==
  ProbeInit /\ MergeIdle /\ ConfIdle /\ VerifyIdle /\ AliasIdle /\ ClientInit /\ GetIdle /\ NormIdle

ProbeFrame == UNCHANGED <<clientVars, getVars, normVars, mergeVars, confVars, verifyVars, aliasVars>>

ProbeNext ==
  \/ CallVerifyUrl /\ ProbeFrame
  \/ Tick /\ ProbeFrame
  \/ Responds /\ ProbeFrame
  \/ Rejects /\ ProbeFrame
  \/ TimeoutFires /\ ProbeFrame

ProbeSpec == ProbeSpecInit /\ [][ProbeNext]_vars /\ WF_vars(ProbeNext)

(***************************************************************************)
(* Properties of the coordinator (checked under Spec).                     *)
(***************************************************************************)
Displayed == <<results, intentResult, selectedResult, cacheRef, emptyStateQueryRef, isSearching>>

\* the i-th call is fulfilled in this step (both fetches delivered)
Fulfils(i) == Pending(reqs[i]) /\ reqs'[i].pc \in {"stale", "blank", "applied"}

\* the i-th call ends in the catch block in this step
Fails(i) == Pending(reqs[i]) /\ reqs'[i].pc = "error"

\* C1: a request whose fan-out resolves while its sequence id is not the
\* latest issued id takes the guard's return and changes nothing: results,
\* intent, selection, cache, empty-state marker and searching flag stay.
C1_SequenceGuard ==
  [][\A i \in 1..Len(reqs) :
       (Fulfils(i) /\ reqs[i].searchId # latestSearchId)
         => (reqs'[i].pc = "stale" /\ UNCHANGED Displayed)]_vars

\* C1 witness: a superseded request has resolved while a place of the newer
\* request's cached result was selected.
C1_Witness ==
  \E i \in 1..Len(reqs) :
    /\ reqs[i].pc = "stale"
    /\ selectedResult # NULL
    /\ DOMAIN cacheRef # {}

\* C2: once a later submission has followed request A (A's cancellation was
\* signalled by that submission), A's completion never materializes: it
\* neither applies a merged result nor an empty one.
C2_LastSubmissionWins ==
  [][\A i \in 1..Len(reqs) :
       (mounted /\ Pending(reqs[i]) /\ reqs[i].signal)
         => reqs'[i].pc \notin {"applied", "blank"}]_vars

C4_CacheWriteAlways ==
  [][\A i \in 1..Len(reqs) :
       (Pending(reqs[i]) /\ reqs'[i].pc = "applied")
         => /\ reqs[i].cacheKey \in DOMAIN cacheRef'
            /\ cacheRef'[reqs[i].cacheKey] = [results |-> results', intent |-> intentResult']]_vars

\* C4 amended: every merge that finishes while the request is the latest and
\* yields a non-empty list stores that list with its intent under the key.
C4_CacheWriteNonEmpty ==
  [][\A i \in 1..Len(reqs) :
       (Pending(reqs[i]) /\ reqs'[i].pc = "applied" /\ Len(results') > 0)
         => /\ reqs[i].cacheKey \in DOMAIN cacheRef'
            /\ cacheRef'[reqs[i].cacheKey] = [results |-> results', intent |-> intentResult']]_vars

\* C4 witness: an applied request whose non-empty list is in the cache
C4_Witness ==
  \E i \in 1..Len(reqs) :
    /\ reqs[i].pc = "applied"
    /\ Len(results) > 0
    /\ reqs[i].cacheKey \in DOMAIN cacheRef
    /\ cacheRef[reqs[i].cacheKey].results = results

\* C5: ids grow strictly in issue order (hence are unique), the counter
\* equals the largest id issued, and the counter never decreases.
C5_SequenceIds ==
  /\ [](/\ \A i, j \in 1..Len(reqs) : i < j => reqs[i].searchId < reqs[j].searchId
        /\ \A i \in 1..Len(reqs) : reqs[i].searchId <= latestSearchId
        /\ IF reqs = <<>> THEN latestSearchId = 0
           ELSE reqs[Len(reqs)].searchId = latestSearchId)
  /\ [][latestSearchId' >= latestSearchId]_vars

\* C5 witness: two requests were issued
C5_Witness == Len(reqs) >= 2 /\ reqs[2].searchId = latestSearchId

\* C6: when one call of the latest request fails while the other was
\* fulfilled, the fulfilled call's result is still displayed.
C6_SettleIndependently ==
  [][\A i \in 1..Len(reqs) :
       (Fails(i) /\ reqs[i].searchId = latestSearchId)
         => /\ reqs[i].search = "ok"
                 => /\ results' = Take(AiResults(reqs[i].aiData), RESULT_LIMIT)
                    /\ intentResult' = Intent(reqs[i].aiData, reqs[i].searchQuery)
            /\ reqs[i].stations = "ok"
                 => results' = MatchingStations(Stations, reqs[i].searchQuery)]_vars

\* C7: when the call to the search endpoint fails for the latest request
\* whose stations were fetched, the literal query is echoed as the intent
\* and the station matches of the literal query are displayed.
C7_WorstCaseDegradation ==
  [][\A i \in 1..Len(reqs) :
       (Fails(i) /\ reqs[i].searchId = latestSearchId /\ reqs[i].stations = "ok")
         => /\ intentResult' # NULL
            /\ intentResult'.name = <<"Search: ">> \o reqs[i].searchQuery
            /\ results' = MatchingStations(Stations, reqs[i].searchQuery)]_vars

(***************************************************************************)
(* Properties of the search endpoint (checked under GetSpec).              *)
(***************************************************************************)
WellFormed(body) ==
  /\ body.k = "obj"
  /\ Get(body, "parsedQuery").k = "obj"
  /\ Get(Get(body, "parsedQuery"), "searchTerm").k = "str"
  /\ Get(body, "results").k = "arr"

\* C8: every request with a non-empty query is answered 200 with a
\* well-formed {parsedQuery, results}, whatever fails on the way.
C8_GetRecoversLocally ==
  (getRet # Undefined /\ trim(getArgs.q) # <<>>)
    => (getRet.status = 200 /\ WellFormed(getRet.body))

\* the candidates that reach the geocoding stage of the request
Candidates ==
  LET env == getArgs.env
      n == normalizeGeminiPayload(env.gemini.v, trim(getArgs.q), getArgs.userLocation # Undefined)
  IN  IF /\ trim(getArgs.q) # <<>>
         /\ (getArgs.userLocation = Undefined \/ env.revgeo # "throw")
         /\ env.apiKey
         /\ env.gemini.kind = "json"
         /\ Truthy(env.gemini.v)
         /\ ~n.throws
         /\ SearchResponseSchema(n.value)
      THEN Take(Get(n.value, "results").a, RESULT_LIMIT)
      ELSE <<>>

\* C9: a candidate whose own lookup resolved (inside the radius when an
\* origin is known) is in the response with those coordinates, whatever
\* happened to the lookups of the other candidates.
C9_GeocodeIsolation ==
  getRet # Undefined =>
    \A i \in 1..Len(Candidates) :
      LET c == Candidates[i]
          g == getArgs.env.geo[i]
      IN  (/\ NeedsGeocode(c)
           /\ g.kind = "ok"
           /\ getArgs.userLocation # Undefined
                => DistanceAtMost(getDistanceKm(getArgs.userLocation, g.coords), SEARCH_RADIUS_KM))
            => /\ getRet.status = 200
               /\ \E j \in 1..Len(Get(getRet.body, "results").a) :
                    Get(getRet.body, "results").a[j] = SetField(c, "coordinates", g.coords)

(***************************************************************************)
(* Properties of the normalizer (checked under NormSpec).                  *)
(***************************************************************************)
\* C10: normalizeGeminiPayload returns for every JSON value, and what it
\* returns has a string parsedQuery.searchTerm and an array results.
C10_NormalizerTotal ==
  normRet # Undefined => (~normRet.throws /\ WellFormed(normRet.value))

(***************************************************************************)
(* Properties of the final result set (checked under GetSpec).             *)
(***************************************************************************)
\* the candidates of a 200 answer
ResponseResults ==
  IF getRet # Undefined /\ getRet.status = 200 THEN Get(getRet.body, "results").a ELSE <<>>

\* C11: every candidate of a completed search has resolved coordinates, and
\* within the active radius when the request carried an origin; a candidate
\* without coordinates is never in the answer, with or without an origin.
C11_FinalSetInvariant ==
  \A j \in 1..Len(ResponseResults) :
    /\ Truthy(Get(ResponseResults[j], "coordinates"))
    /\ getArgs.userLocation # Undefined
         => WithinRadius(getArgs.userLocation, ResponseResults[j])

\* the part of C11 the handler does establish: with an origin, every
\* candidate of the answer has coordinates inside the radius
C11_WithOrigin ==
  getArgs.userLocation # Undefined =>
    \A j \in 1..Len(ResponseResults) : WithinRadius(getArgs.userLocation, ResponseResults[j])

(***************************************************************************)
(* Properties of the merge (checked under MergeSpec).                      *)
(***************************************************************************)
\* the AI candidates of the response, as displayed entries in provider order
MergedAi == AiResults(mergeArgs.aiData)

\* positions of the directory whose station matches the effective term
MatchingPositions ==
  {d \in 1..Len(mergeArgs.stationsData) :
     StationMatches(mergeArgs.stationsData[d],
                    EffectiveQuery(mergeArgs.aiData, mergeArgs.searchQuery))}

\* the directory position a displayed station entry comes from, 0 if none
DirectoryPosition(entry) ==
  LET ds == {d \in 1..Len(mergeArgs.stationsData) :
               <<"station-", mergeArgs.stationsData[d].id>> = entry.id}
  IN  IF ds = {} THEN 0 ELSE CHOOSE d \in ds : TRUE

\* C12: the merged list has at most RESULT_LIMIT entries; it starts with
\* the AI candidates in provider order, followed only by stations; these
\* are the first matching stations of the directory, in directory order,
\* at most 3 of them; nothing that fits below the ceiling is left out.
C12_MergePolicy ==
  mergeRet # Undefined =>
    LET merged == mergeRet.value
        nAi == IF Len(MergedAi) < Len(merged) THEN Len(MergedAi) ELSE Len(merged)
        nSt == Len(merged) - nAi
        most == IF Cardinality(MatchingPositions) < 3 THEN Cardinality(MatchingPositions) ELSE 3
        full == Len(MergedAi) + most
    IN  /\ Len(merged) = (IF full < RESULT_LIMIT THEN full ELSE RESULT_LIMIT)
        /\ \A i \in 1..nAi : merged[i] = MergedAi[i]
        /\ nSt <= 3
        /\ \A i \in (nAi + 1)..Len(merged) :
             /\ merged[i].type = "station"
             /\ DirectoryPosition(merged[i]) \in MatchingPositions
             /\ Cardinality({d \in MatchingPositions : d < DirectoryPosition(merged[i])})
                  = i - nAi - 1

\* C12 witness: 18 candidates and three matching stations, of which the
\* ceiling leaves room for two
C12_Witness ==
  /\ mergeRet # Undefined
  /\ Len(MergedAi) = 18
  /\ Cardinality(MatchingPositions) >= 3
  /\ Len(mergeRet.value) = RESULT_LIMIT
  /\ mergeRet.value[RESULT_LIMIT].type = "station"

(***************************************************************************)
(* Properties of the ceiling and the distance filter (checked under        *)
(* FilterSpec).                                                            *)
(***************************************************************************)
\* the candidates the provider returned for the request
Provided == Get(getArgs.env.gemini.v, "results").a

\* C13: with an origin, the answer holds the first RESULT_LIMIT in-radius
\* candidates of the provider's whole list, in provider order.
C13_CeilingAfterFilter ==
  (getRet # Undefined /\ getArgs.userLocation # Undefined) =>
    ResponseResults =
      Take(Filter(Provided, [i \in 1..Len(Provided) |->
                               WithinRadius(getArgs.userLocation, Provided[i])]),
           RESULT_LIMIT)

\* what the handler does instead: the ceiling cuts the provider's list
\* first, and the filter runs over the candidates that are left
C13_CeilingBeforeFilter ==
  (getRet # Undefined /\ getArgs.userLocation # Undefined) =>
    LET cut == Take(Provided, RESULT_LIMIT)
    IN  ResponseResults =
          Filter(cut, [i \in 1..Len(cut) |-> WithinRadius(getArgs.userLocation, cut[i])])

\* the candidates that pass the ceiling
Cut == Take(Provided, RESULT_LIMIT)

\* hundredths of a degree of latitude between a candidate and the origin
LatitudeGap(c) ==
  Abs(Get(Get(c, "coordinates"), "latitude").n - Get(getArgs.userLocation, "latitude").n)

C14_CancellationPropagated ==
  [][\A i \in 1..Len(reqs) :
       (Pending(reqs[i]) /\ ~reqs[i].signal /\ reqs'[i].signal) => ~Pending(reqs'[i])]_vars

\* the part of C14 about the token: a new request or the teardown finds
\* no request in flight whose token is left unsignalled
C14_TokenSignalled ==
  [][(Len(reqs') > Len(reqs) \/ ~mounted')
       => \A i \in 1..Len(reqs) : Pending(reqs[i]) => reqs'[i].signal]_vars

(***************************************************************************)
(* Properties of the validation step (checked under GetSpec).              *)
(***************************************************************************)
\* what normalizeGeminiPayload returned to the handler, Thrown when the
\* request did not get that far
Normalized ==
  LET env == getArgs.env
  IN  IF /\ trim(getArgs.q) # <<>>
         /\ (getArgs.userLocation = Undefined \/ env.revgeo # "throw")
         /\ env.apiKey
         /\ env.gemini.kind = "json"
         /\ Truthy(env.gemini.v)
      THEN normalizeGeminiPayload(env.gemini.v, trim(getArgs.q), getArgs.userLocation # Undefined)
      ELSE Thrown

NormalizedResults ==
  IF ~Normalized.throws /\ Get(Normalized.value, "results").k = "arr"
  THEN Get(Normalized.value, "results").a ELSE <<>>

\* a candidate with an empty name, a rating outside 0..5, a website that
\* is not http(s), or a 'Name | URL' source whose URL is not http(s)
InvalidCandidate(c) ==
  /\ c.k = "obj"
  /\ \/ Get(c, "name") = JStr(<<>>)
     \/ Get(c, "rating").k = "num" /\ (Get(c, "rating").n < 0 \/ Get(c, "rating").n > 5)
     \/ /\ Get(c, "website").k = "str"
        /\ Get(c, "website").s # <<>>
        /\ Head(Get(c, "website").s) \notin {"http://", "https://"}
     \/ /\ Get(c, "sources").k = "arr"
        /\ \E i \in 1..Len(Get(c, "sources").a) :
             LET src == Get(c, "sources").a[i].s
             IN  \E b \in 1..Len(src) :
                   /\ src[b] = "|"
                   /\ \A j \in (b + 1)..Len(src) : src[j] \notin {"http://", "https://"}

\* C15: when a candidate of the normalized payload is invalid, the answer
\* is 200 with the trimmed query as search term and no results, and no
\* geocode lookup was made.
C15_ValidationFallback ==
  (getRet # Undefined /\ \E i \in 1..Len(NormalizedResults) : InvalidCandidate(NormalizedResults[i]))
    => /\ getRet.status = 200
       /\ Get(Get(getRet.body, "parsedQuery"), "searchTerm") = JStr(trim(getArgs.q))
       /\ Get(getRet.body, "results") = JArr(<<>>)
       /\ getLookups = {}

\* C15 witness: a request with a padded query whose payload holds an
\* invalid candidate next to one that would have been looked up
C15_Witness ==
  /\ getRet # Undefined
  /\ getArgs.q # trim(getArgs.q)
  /\ \E i \in 1..Len(NormalizedResults) : InvalidCandidate(NormalizedResults[i])
  /\ \E i \in 1..Len(NormalizedResults) :
       ~InvalidCandidate(NormalizedResults[i]) /\ NeedsGeocode(NormalizedResults[i])
  /\ getRet.status = 200

(***************************************************************************)
(* Properties of the confidence score (checked under ConfSpec).            *)
(***************************************************************************)
\* a text field that is there and not empty
Present(v) == v.k = "str" /\ v.s # <<>>

\* a source of the form 'Name | URL' whose URL the probes found valid
VerifiedUrlSource(source) ==
  /\ Cardinality({i \in 1..Len(source.s) : source.s[i] = "|"}) = 1
  /\ \E url \in DOMAIN confArgs.urlValidation :
       /\ confArgs.urlValidation[url]
       /\ Len(source.s) > Len(url)
       /\ SubSeq(source.s, Len(source.s) - Len(url) + 1, Len(source.s)) = url

\* the sources of the scored candidate
ScoredSources ==
  IF Get(confRet, "sources").k = "arr" THEN Get(confRet, "sources").a ELSE <<>>

ConfidenceScore ==
  (IF Present(Get(confRet, "website")) THEN 2 ELSE 0)
  + (IF \E i \in 1..Len(ScoredSources) : VerifiedUrlSource(ScoredSources[i]) THEN 3 ELSE 0)
  + (IF Len(ScoredSources) > 1 THEN 1 ELSE 0)
  + (IF Get(confRet, "rating").k = "num" THEN 1 ELSE 0)
  + (IF Present(Get(confRet, "address")) THEN 1 ELSE 0)
  + (IF Present(Get(confRet, "description")) THEN 1 ELSE 0)

C16_NameOnlyLow ==
  (confRet # Undefined /\ DOMAIN confArgs.result.o = {"name"})
    => Get(confRet, "confidence") = JStr(<<"low">>)

(***************************************************************************)
(* Properties of the URL probes (checked under VerifySpec).                *)
(***************************************************************************)
\* the distinct URLs of the input
DistinctUrls == {verifyArgs.urls[i] : i \in 1..Len(verifyArgs.urls)}

\* C17: at most `concurrency` probes are in flight; no URL is probed
\* twice; probes start only in a step after which no probe of an earlier
\* batch is in flight; the returned map has one entry for each distinct
\* URL of the input, each of which was probed once.
C17_BoundedProbes ==
  /\ [](/\ Cardinality(inFlight) <= Concurrency
        /\ \A u \in DOMAIN probes : probes[u] = 1
        /\ verifyRet # Undefined
             => /\ DOMAIN verifyRet.value = DistinctUrls
                /\ DOMAIN probes = DistinctUrls
                /\ inFlight = {})
  /\ [][probes' # probes => inFlight \cap inFlight' = {}]_vars

\* C17 witness: seven distinct URLs, each given twice, were probed with
\* the default concurrency, in two batches
C17_Witness ==
  /\ verifyRet # Undefined
  /\ verifyArgs.concurrency = Undefined
  /\ Cardinality(DistinctUrls) > DefaultConcurrency
  /\ Len(verifyArgs.urls) > Cardinality(DistinctUrls)

(***************************************************************************)
(* Properties of the cache key.                                            *)
(***************************************************************************)
\* the normalization of a raw query: trim, then lower-case
Key(raw) == toLowerCase(trim(raw))

\* the form's onSubmit ran on a query that is not empty after the trim
SubmitOf(raw) == submitted' /\ query = raw /\ Key(raw) # <<>>

\* the input's onChange ran and set the text to raw
TypingOf(raw) == ~submitted' /\ query' = raw /\ query # raw

\* the entries of the cache a step wrote
Written == {k \in DOMAIN cacheRef' : k \notin DOMAIN cacheRef \/ cacheRef'[k] # cacheRef[k]}

\* C19: normalization (trim, then lower-case) is idempotent, and every raw
\* query uses the cache entry named by its normalization: a submit shows
\* that entry when it exists and otherwise starts a request that carries the
\* normalization as its key, typing shows that entry when it exists, and a
\* cache write goes to the key its request carries.  Two raw queries with the
\* same normalization therefore use the same entry.
C19_OneEntryPerNormalization ==
  [][ /\ \A raw \in RawQueries :
           /\ Key(Key(raw)) = Key(raw)
           /\ SubmitOf(raw) =>
                IF Key(raw) \in DOMAIN cacheRef
                THEN /\ results' = cacheRef[Key(raw)].results
                     /\ intentResult' = cacheRef[Key(raw)].intent
                     /\ Len(reqs') = Len(reqs)
                ELSE /\ Len(reqs') = Len(reqs) + 1
                     /\ reqs'[Len(reqs')].cacheKey = Key(raw)
           /\ (TypingOf(raw) /\ Key(raw) \in DOMAIN cacheRef) =>
                /\ results' = cacheRef[Key(raw)].results
                /\ intentResult' = cacheRef[Key(raw)].intent
      /\ \A k \in Written :
           \E i \in 1..Len(reqs) :
             Pending(reqs[i]) /\ reqs'[i].pc = "applied" /\ reqs[i].cacheKey = k
    ]_vars

\* the entry written for the raw query "a" is shown after typing " A"
C19_Witness ==
  /\ query = <<" ", "A">>
  /\ ~submitted
  /\ DOMAIN cacheRef = {<<"a">>}
  /\ Len(reqs) = 1
  /\ reqs[1].searchQuery = <<"a">>
  /\ reqs[1].pc = "applied"
  /\ results = cacheRef[<<"a">>].results
  /\ showResults

(***************************************************************************)
(* Properties of the empty query.                                          *)
(***************************************************************************)
\* a text that is empty or made of spaces only
Blank(text) == \A i \in 1..Len(text) : text[i] = " "

\* what a rejected submit leaves alone
Untouched ==
  UNCHANGED <<reqs, latestSearchId, abortControllerRef, cacheRef, results,
              intentResult, isSearching, emptyStateQueryRef>>

\* the endpoint on a blank query, whatever the location and the providers
EndpointRejectsBlank ==
  \A q \in {r \in RawQueries : Blank(r)}, loc \in SearchLocations, env \in ClientEnvs :
    /\ GET(q, loc, env) = Json400
    /\ ProviderCalls(q, loc, env) = {}

\* C20: a submit of an empty or whitespace-only query starts no request,
\* allocates no sequence id, writes nothing to the cache and leaves the
\* result list, the intent and every request in flight as they were (it
\* only hides the dropdown); the endpoint answers a blank query with status
\* 400 and calls no provider.
C20_BlankRejected ==
  /\ EndpointRejectsBlank
  /\ [][(submitted' /\ Blank(query)) => Untouched]_vars

\* a whitespace-only submit while a request is in flight and results are shown
C20_Witness ==
  /\ submitted
  /\ query = <<" ">>
  /\ Len(results) > 0
  /\ \E i \in 1..Len(reqs) : Pending(reqs[i]) /\ ~reqs[i].signal

\* side fact: the same answer under every modelled provider behaviour
C20_EndpointAllProviders ==
  (getRet # Undefined /\ Blank(getArgs.q)) =>
    /\ getRet = Json400
    /\ getLookups = {}
    /\ ProviderCalls(getArgs.q, getArgs.userLocation, getArgs.env) = {}

(***************************************************************************)
(* Properties of station matching (checked under MergeSpec).               *)
(***************************************************************************)
\* the name a station is displayed under
DisplayName(feature) == StationResult(feature).name

\* positions of the directory whose display name contains the effective
\* term, compared case-insensitively
DisplayMatchingPositions ==
  {d \in 1..Len(mergeArgs.stationsData) :
     includes(toLowerCase(DisplayName(mergeArgs.stationsData[d])),
              toLowerCase(EffectiveQuery(mergeArgs.aiData, mergeArgs.searchQuery)))}

\* the directory positions of the stations in the merged list
AppendedPositions ==
  {DirectoryPosition(mergeRet.value[i]) :
     i \in {j \in 1..Len(mergeRet.value) : mergeRet.value[j].type = "station"}}

\* C21: when the ceiling leaves room for three stations, the stations
\* appended are the first 3 of the directory whose display name contains
\* the effective search term, compared case-insensitively.
C21_MatchByDisplayName ==
  (mergeRet # Undefined /\ Len(MergedAi) + 3 <= RESULT_LIMIT) =>
    AppendedPositions =
      {d \in DisplayMatchingPositions :
         Cardinality({e \in DisplayMatchingPositions : e < d}) < 3}

(***************************************************************************)
(* Properties of the searching flag (checked under LiveSpec).              *)
(***************************************************************************)
\* the request that was issued last has not settled yet
LatestPending ==
  \E i \in 1..Len(reqs) : reqs[i].searchId = latestSearchId /\ Pending(reqs[i])

\* side fact: the state part of C22
C22_FlagIffLatestPending == isSearching <=> LatestPending

\* C22: the searching flag is true exactly when the latest issued request
\* has not settled (so an older request that settles, stale or aborted,
\* never clears it while the newer one is pending); only a submit that
\* issues a request raises it; and when every network call eventually
\* settles, a raised flag is eventually lowered.
C22_SearchingFlag ==
  /\ [](isSearching <=> LatestPending)
  /\ [][(~isSearching /\ isSearching') => (submitted' /\ Len(reqs') = Len(reqs) + 1)]_vars
  /\ (isSearching ~> ~isSearching)

\* an older request has settled, stale or aborted, while the newer request
\* is pending and the flag is up
C22_Witness ==
  /\ Len(reqs) = 2
  /\ reqs[1].pc \in {"stale", "aborted"}
  /\ Pending(reqs[2])
  /\ reqs[2].searchId = latestSearchId
  /\ isSearching

(***************************************************************************)
(* Properties of the cache and the origin (checked under OriginSpec).      *)
(***************************************************************************)
\* a displayed place lies within the search radius of origin
PlaceWithin(origin, entry) ==
  /\ entry.coordinates # <<>>
  /\ DistanceAtMost(getDistanceKm(origin, Coord(entry.coordinates[2], entry.coordinates[1])),
                    SEARCH_RADIUS_KM)

\* C23: the set a submit shows from the cache satisfies the radius bound of
\* the origin of that submit.  A cache hit does not read the origin, so the
\* step is the same for every origin the map can have at that time.
C23_CacheRespectsOrigin ==
  [][(submitted' /\ Key(query) # <<>> /\ Key(query) \in DOMAIN cacheRef) =>
       \A origin \in SearchLocations \ {Undefined} :
         \A i \in 1..Len(results') :
           results'[i].type = "place" => PlaceWithin(origin, results'[i])]_vars

\* side fact: what a submit shows from the cache is the entry stored under
\* the key, whatever the origin of the request that wrote it
C23_CacheServedByKeyOnly ==
  [][(submitted' /\ Key(query) # <<>> /\ Key(query) \in DOMAIN cacheRef) =>
       results' = cacheRef[Key(query)].results]_vars

(***************************************************************************)
(* Properties of the canonical pass-through (checked under NormSpec).      *)
(***************************************************************************)
\* the parsedQuery of the payload and of the value returned for it
PayloadParsed == Get(normArgs.raw, "parsedQuery")
ReturnedParsed == Get(normRet.value, "parsedQuery")

\* the filters the claim expects in the output: the nested ones when
\* present, otherwise the flattened ones when present
ExpectedFilters ==
  IF Truthy(Get(Get(PayloadParsed, "context"), "filters"))
  THEN Get(Get(PayloadParsed, "context"), "filters")
  ELSE IF Truthy(Get(PayloadParsed, "filters")) THEN Get(PayloadParsed, "filters")
  ELSE Undefined

\* a call on a payload with a parsedQuery object has returned
PassedThrough == normRet # Undefined /\ ~normRet.throws /\ PayloadParsed.k = "obj"

\* C24: for a payload with a parsedQuery, the output context.filters are
\* the nested filters when present and otherwise the flattened filters when
\* present, with or without a context object in the payload; searchTerm is
\* the payload's term, or the original query when that is empty.
C24_FiltersFolded ==
  PassedThrough =>
    /\ ExpectedFilters # Undefined =>
         Get(Get(ReturnedParsed, "context"), "filters") = ExpectedFilters
    /\ Get(ReturnedParsed, "searchTerm")
         = OrElse(Get(PayloadParsed, "searchTerm"), JStr(normArgs.query))

\* side fact: the same for the payloads whose parsedQuery has a context object
C24_FoldedIntoContext ==
  (PassedThrough /\ Get(PayloadParsed, "context").k = "obj") =>
    /\ ExpectedFilters # Undefined =>
         Get(Get(ReturnedParsed, "context"), "filters") = ExpectedFilters
    /\ Get(ReturnedParsed, "searchTerm")
         = OrElse(Get(PayloadParsed, "searchTerm"), JStr(normArgs.query))

(***************************************************************************)
(* Properties of the alias shape (checked under AliasSpec).                *)
(***************************************************************************)
\* the places of the payload: suggested_places when it is an array, else
\* places when it is an array, else none
PayloadPlaces ==
  LET raw == aliasArgs.raw
  IN  IF Get(raw, "suggested_places").k = "arr" THEN Get(raw, "suggested_places").a
      ELSE IF Get(raw, "places").k = "arr" THEN Get(raw, "places").a
      ELSE <<>>

RECURSIVE FirstPopulated(_, _)
\* the value of the first of the fields that c populates, Undefined if none
FirstPopulated(c, fields) ==
  IF fields = <<>> THEN Undefined
  ELSE IF Get(c, Head(fields)).k \notin {"null", "undef"} THEN Get(c, Head(fields))
  ELSE FirstPopulated(c, Tail(fields))

\* the i-th place a revision returned, Undefined when there is none
ReturnedPlace(ret, i) ==
  IF ~ret.throws /\ Get(ret.value, "results").k = "arr" /\ i <= Len(Get(ret.value, "results").a)
  THEN Get(ret.value, "results").a[i] ELSE Undefined

\* ret resolves the coordinates of every place of the payload by precedence
AliasPrecedence(ret) ==
  \A i \in 1..Len(PayloadPlaces) :
    LET c == Get(PayloadPlaces[i], "coordinates")
        latitude == FirstPopulated(c, <<"latitude", "lat", "y">>)
        longitude == FirstPopulated(c, <<"longitude", "lng", "x">>)
        resolved == Get(ReturnedPlace(ret, i), "coordinates")
    IN  /\ latitude # Undefined => Get(resolved, "latitude") = latitude
        /\ longitude # Undefined => Get(resolved, "longitude") = longitude

\* C25: for every place whose coordinates carry alias fields, the resolved
\* latitude is the first populated of latitude, lat, y and the resolved
\* longitude the first populated of longitude, lng, x.
C25_AliasPrecedence == aliasRet # Undefined => AliasPrecedence(aliasRet.current)

\* side fact: the earlier revision resolves the aliases as C25 states
C25_EarlierRevision == aliasRet # Undefined => AliasPrecedence(aliasRet.earlier)

\* the search term the claim expects for the payload
ExpectedTerm ==
  LET raw == aliasArgs.raw
      si == Get(raw, "search_intent")
  IN  IF Truthy(Get(si, "query")) THEN Get(si, "query")
      ELSE IF si.k = "str" /\ si.s # <<>> THEN si
      ELSE IF Truthy(Get(raw, "searchTerm")) THEN Get(raw, "searchTerm")
      ELSE JStr(aliasArgs.query)

\* ret reconciles the alias shape of the payload
Reconciled(ret) ==
  /\ ~ret.throws
  /\ Get(Get(ret.value, "parsedQuery"), "searchTerm") = ExpectedTerm
  /\ Get(ret.value, "results").k = "arr"
  /\ Len(Get(ret.value, "results").a) = Len(PayloadPlaces)
  /\ \A i \in 1..Len(PayloadPlaces) :
       Get(ReturnedPlace(ret, i), "name") = Get(PayloadPlaces[i], "name")

\* C26: for a payload without parsedQuery the search term is the first
\* populated of search_intent.query, a string search_intent, the top-level
\* searchTerm and the original query; the places come from suggested_places
\* when it is an array, else from places when it is an array, else there
\* are none.
C26_AliasReconciled == aliasRet # Undefined => Reconciled(aliasRet.current)

\* side fact: the earlier revision reconciles the alias shape as C26 states
C26_EarlierRevision == aliasRet # Undefined => Reconciled(aliasRet.earlier)

(***************************************************************************)
(* Properties of a failed request (checked under Spec).                    *)
(***************************************************************************)
\* C27: when the fan-out of the latest issued request fails with an error
\* other than an abort, the step writes nothing to the cache, leaves the
\* displayed results, the intent, the selection and the empty-state marker
\* as they were, and clears the searching flag.
C27_FailureKeepsState ==
  [][\A i \in 1..Len(reqs) :
       (Fails(i) /\ reqs[i].searchId = latestSearchId) =>
         /\ UNCHANGED <<cacheRef, results, intentResult, selectedResult, emptyStateQueryRef>>
         /\ ~isSearching']_vars

\* the latest request has failed while a cached result list was on display
C27_Witness ==
  /\ \E i \in 1..Len(reqs) : reqs[i].pc = "error" /\ reqs[i].searchId = latestSearchId
  /\ ~isSearching
  /\ Len(results) > 0
  /\ intentResult # NULL

(***************************************************************************)
(* Properties of the cache content (checked under Spec).                   *)
(***************************************************************************)
\* a well-formed cache entry: a non-empty list within the ceiling, with
\* its intent summary
CacheEntryOk(entry) ==
  /\ Len(entry.results) >= 1
  /\ Len(entry.results) <= RESULT_LIMIT
  /\ entry.intent # NULL
  /\ entry.intent.type = "intent"

\* C28: every cache entry is a non-empty list of at most RESULT_LIMIT
\* entries with its intent summary; an entry is written only by a request
\* whose normalized query is the entry's key and that is the latest issued
\* request at the time of the write; an entry once present is never removed.
C28_CacheContent ==
  /\ [](\A k \in DOMAIN cacheRef : CacheEntryOk(cacheRef[k]))
  /\ [][/\ DOMAIN cacheRef \subseteq DOMAIN cacheRef'
        /\ \A k \in Written :
             \E i \in 1..Len(reqs) :
               /\ Pending(reqs[i])
               /\ reqs'[i].pc = "applied"
               /\ Key(reqs[i].searchQuery) = k
               /\ reqs[i].searchId = latestSearchId
               /\ cacheRef'[k] = [results |-> results', intent |-> intentResult']]_vars

\* two requests have each written their entry
C28_Witness ==
  /\ Cardinality(DOMAIN cacheRef) = 2
  /\ Len(reqs) = 2
  /\ reqs[1].pc = "applied"
  /\ reqs[2].pc = "applied"
  /\ reqs[1].cacheKey # reqs[2].cacheKey

(***************************************************************************)
(* Properties of the source cleaning (checked under ConfSpec).             *)
(***************************************************************************)
\* the validity map marks url valid
Marked(url) == url \in DOMAIN confArgs.urlValidation /\ confArgs.urlValidation[url]

\* a source without any '|'
PlainSource(source) == \A i \in 1..Len(source.s) : source.s[i] # "|"

\* the sources of the input that the claim keeps, in their order
KeptSources ==
  LET Kept(source) == PlainSource(source) \/ VerifiedUrlSource(source)
  IN  SelectSeq(Get(confArgs.result, "sources").a, Kept)

\* the tier of the score of the cleaned candidate
CleanedTier ==
  IF ConfidenceScore >= 7 THEN JStr(<<"high">>)
  ELSE IF ConfidenceScore >= 4 THEN JStr(<<"medium">>)
  ELSE JStr(<<"low">>)

\* C29: validateAndCleanResult keeps a website iff the map marks it valid,
\* keeps the plain-text sources and the 'Name | URL' sources whose URL is
\* marked valid, drops every other source, sets sources to undefined when
\* none remain, scores the cleaned data, copies every other field, and
\* leaves its input as it was.
C29_SourceCleaning ==
  /\ [](confRet # Undefined =>
         LET result == confArgs.result
         IN  /\ Present(Get(result, "website")) =>
                  Get(confRet, "website") =
                    (IF Marked(Get(result, "website").s) THEN Get(result, "website")
                     ELSE Undefined)
             /\ Get(result, "sources").k = "arr" =>
                  Get(confRet, "sources") =
                    (IF KeptSources = <<>> THEN Undefined ELSE JArr(KeptSources))
             /\ Get(result, "sources").k # "arr" => Get(confRet, "sources") = Get(result, "sources")
             /\ Get(confRet, "confidence") = CleanedTier
             /\ \A f \in (DOMAIN result.o \cup DOMAIN confRet.o) \ {"website", "sources", "confidence"} :
                  Get(confRet, f) = Get(result, f))
  /\ [][confArgs' = confArgs]_vars

\* an invalid website, a verified source that is kept and a source with two
\* bars that is dropped
C29_Witness ==
  /\ confRet # Undefined
  /\ Present(Get(confArgs.result, "website"))
  /\ Get(confRet, "website") = Undefined
  /\ Get(confArgs.result, "sources").k = "arr"
  /\ Len(Get(confArgs.result, "sources").a) = 2
  /\ Len(ScoredSources) = 1
  /\ VerifiedUrlSource(ScoredSources[1])
  /\ \E i \in 1..2 : SplitParts(Get(confArgs.result, "sources").a[i]) = 3

\* side fact: an empty website text is not a website; it is copied as it is
C29_EmptyWebsiteCopied ==
  (confRet # Undefined /\ Get(confArgs.result, "website") = JStr(<<>>))
    => Get(confRet, "website") = JStr(<<>>)

(***************************************************************************)
(* Properties of one probe (checked under ProbeSpec).                      *)
(***************************************************************************)
\* the target answers with a status before the timeout can abort the probe
AnswersInTime ==
  probeArgs.target.kind = "status" /\ probeArgs.delay < TimeoutMs

\* the target's answer comes only after the timeout
AnswersLate ==
  probeArgs.target.kind = "hang" \/ probeArgs.delay > TimeoutMs

\* C30: verifyUrl never throws; it returns valid = true iff a response
\* arrived and its status is in 200..399, and valid = false for any other
\* status, for a network error and for a probe aborted by its timeout; a
\* probe is never pending after its timeout, and every probe settles.
C30_ProbeSettles ==
  /\ [](probeRet # Undefined =>
         /\ ~probeRet.throws
         /\ probeRet.value.valid <=>
              /\ "status" \in DOMAIN probeRet.value
              /\ probeRet.value.status = probeArgs.target.status
              /\ probeRet.value.status \in 200..399
         /\ AnswersInTime => "status" \in DOMAIN probeRet.value
         /\ (AnswersLate \/ probeArgs.target.kind = "neterr") => ~probeRet.value.valid)
  /\ [](probePc = "fetching" => probeNow <= TimeoutMs)
  /\ (probePc = "fetching" ~> probePc = "done")

\* a target that never answers was probed with the default timeout, and the
\* probe returned valid = false at 3000 ms
C30_Witness ==
  /\ probePc = "done"
  /\ probeArgs.target.kind = "hang"
  /\ probeArgs.timeoutMs = Undefined
  /\ probeNow = 3000
  /\ probeTimer = "fired"
  /\ probeRet = ProbeCaught("aborted")

(***************************************************************************)
(* Properties of the geocode enrichment (checked under GetSpec).           *)
(***************************************************************************)
\* the request reached the enrichment of lines 936-953
Enriching ==
  /\ getRet # Undefined
  /\ trim(getArgs.q) # <<>>
  /\ getArgs.userLocation # Undefined => ~reverseGeocodeAddress(getArgs.env.revgeo).throws
  /\ getArgs.env.apiKey
  /\ getArgs.env.gemini.kind = "json"
  /\ Truthy(getArgs.env.gemini.v)
  /\ ~Normalized.throws
  /\ SearchResponseSchema(Normalized.value)

EnrichCandidates == Sliced(getArgs.q, getArgs.userLocation, getArgs.env)

HasAddressNoCoordinates(c) ==
  /\ Get(c, "address").k = "str" /\ Get(c, "address").s # <<>>
  /\ Get(c, "coordinates").k \in {"undef", "null"}

\* side fact: lookups are issued for exactly the candidates with an address
\* and no coordinates, whatever the other lookups answer, and a returned
\* result is its candidate, or its candidate with the looked-up coordinates
C31_LookupScope ==
  Enriching =>
    /\ getLookups = {i \in 1..Len(EnrichCandidates) : HasAddressNoCoordinates(EnrichCandidates[i])}
    /\ \A g \in [1..MaxGetPlaces -> GeoOutcomes] :
         GeocodeLookups(getArgs.q, getArgs.userLocation, [getArgs.env EXCEPT !.geo = g]) = getLookups
    /\ getRet.status = 200 =>
         \A j \in 1..Len(Get(getRet.body, "results").a) :
           \E i \in 1..Len(EnrichCandidates) :
             LET r == Get(getRet.body, "results").a[j]
             IN  \/ r = EnrichCandidates[i]
                 \/ /\ i \in getLookups
                    /\ getArgs.env.geo[i].kind = "ok"
                    /\ r = SetField(EnrichCandidates[i], "coordinates", getArgs.env.geo[i].coords)

\* C31: a geocode lookup is issued for exactly the candidates that have an
\* address and no coordinates, present coordinates are kept, the lookups
\* do not wait for one another, and when an origin is known every lookup
\* carries the bounding box of about 10 km around that origin.
C31_GeocodeScope ==
  /\ C31_LookupScope
  /\ (Enriching /\ getArgs.userLocation # Undefined) =>
       \A i \in DOMAIN getRequests :
         /\ "viewbox" \in DOMAIN getRequests[i]
         /\ getRequests[i].viewbox = getViewbox(getArgs.userLocation)

\* side fact: a lookup was issued with a known origin, and the request of
\* the geocodeAddress of lib/urlValidation.ts would carry the bounding box
C31_ViewboxVersion ==
  (Enriching /\ getArgs.userLocation # Undefined) =>
    \A i \in DOMAIN getRequests :
      LET request == GeocodeRequestViewbox(getRequests[i].q, getArgs.userLocation)
      IN  /\ request.viewbox = getViewbox(getArgs.userLocation)
          /\ request.bounded = "1"

\* a lookup was issued with a known origin next to a candidate that kept
\* its own coordinates
C31_LookupIssued ==
  /\ Enriching
  /\ getArgs.userLocation # Undefined
  /\ getLookups # {}
  /\ \E i \in 1..Len(EnrichCandidates) : Truthy(Get(EnrichCandidates[i], "coordinates"))

(***************************************************************************)
(* Stations and the distance filter (checked under MergeSpec).             *)
(***************************************************************************)
\* the number of matching stations that precede directory position d
MatchRank(d) == Cardinality({e \in MatchingPositions : e < d})

\* C32: every station whose name matches the effective term, with fewer
\* than 3 matches before it and room below the result ceiling, is in the
\* merged list with the coordinates of the directory, whatever its distance
\* from the origin.
C32_StationsBypassDistance ==
  mergeRet # Undefined =>
    \A d \in MatchingPositions :
      (MatchRank(d) < STATION_CAP /\ Len(MergedAi) + MatchRank(d) < RESULT_LIMIT) =>
        /\ Len(mergeRet.value) >= Len(MergedAi) + MatchRank(d) + 1
        /\ mergeRet.value[Len(MergedAi) + MatchRank(d) + 1]
             = StationResult(mergeArgs.stationsData[d])
        /\ mergeRet.value[Len(MergedAi) + MatchRank(d) + 1].coordinates
             = mergeArgs.stationsData[d].coordinates

\* a merged list that holds a matching station outside the radius after one
\* inside it
C32_Witness ==
  /\ mergeRet # Undefined
  /\ \E d, e \in MatchingPositions :
       /\ d < e
       /\ StationNear(mergeArgs.stationsData[d])
       /\ ~StationNear(mergeArgs.stationsData[e])
       /\ \E i \in 1..Len(mergeRet.value) :
            mergeRet.value[i] = StationResult(mergeArgs.stationsData[e])

(***************************************************************************)
(* Ownership of the cache and of the sequence counter (checked under Spec).*)
(***************************************************************************)
\* the input's onChange ran: only it changes the text
Typing == query' # query

\* the continuation of request i ran, passed the sequence guard and applied
\* its results
AppliedBy(i) ==
  /\ Pending(reqs[i])
  /\ reqs'[i].pc = "applied"
  /\ reqs[i].searchId = latestSearchId

\* C33: the cache is written only by the completion of a request that
\* passed the sequence guard, and only at that request's key; the counter
\* changes only when a submission issues a request, which carries the new
\* value; typing leaves the cache, the counter and the requests alone.
C33_ExclusiveOwnership ==
  [][ /\ cacheRef' # cacheRef =>
           \E i \in 1..Len(reqs) :
             /\ AppliedBy(i)
             /\ Written = {reqs[i].cacheKey}
             /\ DOMAIN cacheRef' = DOMAIN cacheRef \cup {reqs[i].cacheKey}
      /\ latestSearchId' # latestSearchId =>
           /\ submitted'
           /\ latestSearchId' = latestSearchId + 1
           /\ Len(reqs') = Len(reqs) + 1
           /\ Pending(reqs'[Len(reqs')])
           /\ reqs'[Len(reqs')].searchId = latestSearchId'
      /\ Typing =>
           /\ ~submitted'
           /\ UNCHANGED <<cacheRef, latestSearchId, abortControllerRef>>
           /\ reqs' = reqs
    ]_vars

\* after two submissions and a cache write, typing showed a cached entry
\* while the second request was still pending
C33_Witness ==
  /\ ~submitted
  /\ latestSearchId = 2
  /\ CacheHas(ChangeKey(query))
  /\ results = cacheRef[ChangeKey(query)].results
  /\ Len(reqs) = 2
  /\ reqs[1].pc = "applied"
  /\ Pending(reqs[2])

(***************************************************************************)
(* Ids of the place candidates (checked under NormSpec and MergeSpec).     *)
(***************************************************************************)
\* the places of the payload given to the normalizer, and those it returned
RawPlaces ==
  IF Get(normArgs.raw, "results").k = "arr" THEN Get(normArgs.raw, "results").a ELSE <<>>

NormalizedPlaces ==
  IF normRet # Undefined /\ ~normRet.throws /\ Get(normRet.value, "results").k = "arr"
  THEN Get(normRet.value, "results").a ELSE <<>>

\* the id the claim expects for the place at position i of a mapped list
ExpectedId(place, i) == OrElse(Get(place, "id"), JStr(PlaceId(i - 1)))

IdsAssigned ==
  /\ Len(NormalizedPlaces) = Len(RawPlaces)
  /\ \A i \in 1..Len(NormalizedPlaces) :
       /\ Truthy(Get(NormalizedPlaces[i], "id"))
       /\ Get(NormalizedPlaces[i], "id") = ExpectedId(RawPlaces[i], i)

\* every place of the payload is an object
PlacesAreObjects == \A i \in 1..Len(RawPlaces) : RawPlaces[i].k = "obj"

\* C34: every place candidate that leaves the normalizer has a non-empty
\* id: the provider's id when one was provided, otherwise place-{index}
\* with the zero-based position of the candidate in the mapped list.
C34_SyntheticIds ==
  (normRet # Undefined /\ ~normRet.throws /\ PlacesAreObjects) => IdsAssigned

\* side fact: the same for payloads without a parsedQuery, where the
\* normalizer maps the places
C34_MappedPlacesHaveIds ==
  (normRet # Undefined /\ ~normRet.throws /\ ~Truthy(PayloadParsed)) => IdsAssigned

\* side fact: every place entry of the merged list has a non-empty id, the
\* endpoint's when it sent one and otherwise place-{index}
C34_MergedPlacesHaveIds ==
  mergeRet # Undefined =>
    \A i \in 1..Len(mergeRet.value) :
      mergeRet.value[i].type = "place" =>
        /\ mergeRet.value[i].id # <<>>
        /\ mergeRet.value[i].id = ExpectedId(Get(mergeArgs.aiData, "results").a[i], i).s

\* a payload with a parsedQuery and a place without an id was normalized
C34_PassThroughPlace ==
  /\ normRet # Undefined
  /\ ~normRet.throws
  /\ Truthy(PayloadParsed)
  /\ \E i \in 1..Len(RawPlaces) :
       RawPlaces[i].k = "obj" /\ ~Truthy(Get(RawPlaces[i], "id"))

(***************************************************************************)
(* Uniqueness of the displayed ids (checked under MergeSpec).              *)
(***************************************************************************)
MergedPlaces == Get(mergeArgs.aiData, "results").a

\* positions of the endpoint's list whose place came with an id
WithId == {i \in 1..Len(MergedPlaces) : Truthy(Get(MergedPlaces[i], "id"))}

\* the ids the endpoint sent are pairwise distinct
ProvidedIdsDistinct ==
  \A i, j \in WithId : i # j => Get(MergedPlaces[i], "id") # Get(MergedPlaces[j], "id")

DisplayedIdsDistinct ==
  \A i, j \in 1..Len(mergeRet.value) : i # j => mergeRet.value[i].id # mergeRet.value[j].id

\* C35: the ids of the entries of a displayed list (provider ids, synthetic
\* place-{index} ids and station-{id} ids) are pairwise distinct, also when
\* only some places came with an id; payloads that repeat an id of their
\* own are left aside.
C35_UniqueIds ==
  (mergeRet # Undefined /\ ProvidedIdsDistinct) => DisplayedIdsDistinct

\* side fact: the ids are distinct when no id sent by the endpoint has the
\* form of a synthetic or of a station id
C35_UniqueWithoutCollision ==
  (/\ mergeRet # Undefined
   /\ ProvidedIdsDistinct
   /\ \A i \in WithId : Head(Get(MergedPlaces[i], "id").s) \notin {"place-", "station-"})
    => DisplayedIdsDistinct

\* a list was merged from a first place whose id is place-1 and a second
\* place without an id
C35_PartialIds ==
  /\ mergeRet # Undefined
  /\ Len(MergedPlaces) = 2
  /\ Get(MergedPlaces[1], "id") = JStr(PlaceId(1))
  /\ ~Truthy(Get(MergedPlaces[2], "id"))
  /\ mergeRet.value[1].id = mergeRet.value[2].id

(***************************************************************************)
(* Coordinates the payload does not hold (checked under AliasSpec).        *)
(***************************************************************************)
\* the values of the fields that c populates
Populated(c, fields) ==
  {Get(c, fields[k]) : k \in {j \in 1..Len(fields) : ~Nullish(Get(c, fields[j]))}}

\* ret holds no coordinate component that the payload does not hold
NoFabrication(ret) ==
  \A i \in 1..Len(PayloadPlaces) :
    LET c == Get(PayloadPlaces[i], "coordinates")
        latitudes == Populated(c, <<"latitude", "lat", "y">>)
        longitudes == Populated(c, <<"longitude", "lng", "x">>)
        resolved == Get(ReturnedPlace(ret, i), "coordinates")
    IN  /\ (latitudes = {} \/ longitudes = {}) => resolved = Undefined
        /\ resolved # Undefined =>
             /\ Get(resolved, "latitude") \in latitudes
             /\ Get(resolved, "longitude") \in longitudes

\* C36: in the output of the normalizer that resolves the coordinate
\* aliases, every coordinate component is the value of an alias field of
\* the input place, and a place whose coordinates hold none of latitude,
\* lat, y, or none of longitude, lng, x, is returned without coordinates.
C36_NoFabricatedCoordinates == aliasRet # Undefined => NoFabrication(aliasRet.earlier)

\* side fact: the current revision returns no coordinates for these payloads
C36_CurrentRevision ==
  aliasRet # Undefined =>
    /\ NoFabrication(aliasRet.current)
    /\ \A i \in 1..Len(PayloadPlaces) :
         Get(ReturnedPlace(aliasRet.current, i), "coordinates") = Undefined

\* a place whose coordinates hold a longitude and no latitude alias was
\* normalized, and its resolved latitude is 0
C36_ZeroLatitude ==
  /\ aliasRet # Undefined
  /\ Len(PayloadPlaces) = 1
  /\ Populated(Get(PayloadPlaces[1], "coordinates"), <<"latitude", "lat", "y">>) = {}
  /\ Populated(Get(PayloadPlaces[1], "coordinates"), <<"longitude", "lng", "x">>) # {}
  /\ Get(Get(ReturnedPlace(aliasRet.earlier, 1), "coordinates"), "latitude") = JNum(0)

(***************************************************************************)
(* Termination of verifyUrls (checked under VerifyAnySpec).                *)
(***************************************************************************)
\* C37: for every list of URLs and every concurrency, verifyUrls enters its
\* loop body at most once per distinct URL and returns its map.
C37_Terminates ==
  /\ [](verifyBatches <= Cardinality(DistinctUrls))
  /\ <>(verifyRet # Undefined)

\* side fact: the same for every concurrency other than 0, and for an
\* empty list
C37_PositiveConcurrency ==
  (verifyArgs.concurrency # JNum(0) \/ verifyArgs.urls = <<>>) =>
    /\ [](verifyBatches <= Cardinality(DistinctUrls))
    /\ <>(verifyRet # Undefined)

\* a call with concurrency 0 on a list that is not empty went through
\* MaxBatches rounds of the loop without a probe and without a return
C37_Spinning ==
  /\ verifyArgs.concurrency = JNum(0)
  /\ verifyArgs.urls # <<>>
  /\ verifyBatches = MaxBatches
  /\ verifyI = 0
  /\ probes = <<>>
  /\ verifyRet = Undefined

====
